---- MODULE Spec2Model ----
(***************************************************************************)
(* A model of asphalt's resource contexts (asphalt/core/context.py) and of *)
(* its component startup orchestrator (asphalt/core/_component.py).        *)
(*                                                                         *)
(* Ten specifications share the variables:                                 *)
(*   Spec          resources, factories, attributes and lookups            *)
(*   RequestSpec   tasks suspended in request_resource                     *)
(*   TeardownSpec  teardown callbacks and close()                          *)
(*   StartSpec     start_component, its start tasks and its watchdog       *)
(*   StartFairSpec StartSpec with a scheduler that runs the tasks that can *)
(*                 run                                                     *)
(*   ComponentTeardownSpec  teardown callbacks registered by components    *)
(*   DeclareSpec   add_component on components that have not started      *)
(*   MergeSpec     merge_config on the mappings of the tests               *)
(*   GeneratorSpec functions wrapped by context_teardown                   *)
(*   RegistrySpec  the children registered and started by their path       *)
(***************************************************************************)
EXTENDS Integers, Sequences, FiniteSets, TLC

(***************************************************************************)
(* Bounds of the model.                                                    *)
(***************************************************************************)
\* successful add_resource / add_resource_factory calls made by the user
MaxAdds == 2
\* invocations of one factory callback with one requesting context
MaxCalls == 2
\* contexts closed in the lookup specification
MaxCloses == 1
\* tasks that call request_resource
MaxWaiters == 1
\* teardown callbacks registered
MaxCallbacks == 3

(***************************************************************************)
(* The context tree.  The parent of a context is fixed at construction.    *)
(***************************************************************************)
NoCtx == -1
Contexts == {0, 1, 2, 3, 4}

parent(c) ==
    CASE c = 0 -> NoCtx
      [] c = 1 -> 0
      [] c = 2 -> 1
      [] c = 3 -> 1
      [] c = 4 -> 2
      [] OTHER -> NoCtx

RECURSIVE context_chain(_)
context_chain(c) ==
    IF c = NoCtx THEN << >> ELSE <<c>> \o context_chain(parent(c))

ChainSet(c) == {context_chain(c)[i] : i \in 1..Len(context_chain(c))}

(***************************************************************************)
(* Values, types, names.                                                   *)
(***************************************************************************)
Types == {"T1", "T2"}
TypeSets == (SUBSET Types) \ {{}}
WordNames == {"default", "x"}
BadNames == {"bad name"}
NoAttr == "None"
AttrNames == {"attr"}
Keys == Types \X WordNames

\* Factory callbacks: every registration made by the model passes a callback
\* object of its own (1..MaxAdds); CoroutineFn is a coroutine function.
FactoryFns == 1..MaxAdds
CoroutineFn == 0
iscoroutinefunction(f) == f = CoroutineFn

\* A value is an object: two values are the same object iff the records are
\* equal.  UserValue(i) is the i-th object the user adds; a generated value
\* is the n-th object returned by factory callback fac called with context
\* ctx.
NoneValue == [kind |-> "none", type |-> "NoneType", fac |-> 0, ctx |-> NoCtx, n |-> 0]
UserValue(i) == [kind |-> "user", type |-> "T1", fac |-> 0, ctx |-> NoCtx, n |-> i]
FactoryValue(f) == [kind |-> "callable", type |-> "function", fac |-> f, ctx |-> NoCtx, n |-> 0]
GeneratedValue(f, c, i) == [kind |-> "generated", type |-> "object", fac |-> f, ctx |-> c, n |-> i]
\* type(value)
TypeOf(v) == v.type

ResourceContainer(value_or_factory, types, name, context_attr, is_factory) ==
    [value_or_factory |-> value_or_factory, types |-> types, name |-> name,
     context_attr |-> context_attr, is_factory |-> is_factory]

\* dict.get(key) is None / key not in dict
NoEntry == ResourceContainer(NoneValue, {}, "", NoAttr, FALSE)

NoExc == "none"

VARIABLES
    resources,                          \* Context._resources
    resource_factories,                 \* Context._resource_factories
    resource_factories_by_context_attr, \* Context._resource_factories_by_context_attr
    attributes,                         \* attributes bound with setattr(ctx, context_attr, value)
    closed,                             \* Context._closed
    calls,                              \* calls[f][c]: invocations of factory callback f with context c
    waiters,                            \* tasks inside request_resource
    nadded,                             \* objects and callbacks the user has registered so far
    teardown_callbacks,                 \* Context._teardown_callbacks
    closing,                            \* the running close() call of each context
    invoked,                            \* per context: the callbacks close() has called, in order
    finished,                           \* per context: the callbacks that have completed, in order
    registered,                         \* per context: ids stored by add_teardown_callback, in order
    scope,                              \* per context: the "async with ctx" block around it
    generators,                         \* the calls of functions wrapped by context_teardown
    task,                               \* per component: the task running _start_component for it
    status,                             \* ComponentContext.status ("none": context not created yet)
    cancel_called,                      \* startup_scope.cancel_called
    tg_cancelled,                       \* per component: its task group's cancel scope was cancelled
    startup_watcher,                    \* the watcher task of start_component
    logged,                             \* the diagnostics the watcher has passed to logger.error
    component,                          \* the Component objects and their fields
    config_keys,                        \* the keys of the config mapping passed to start_component
    start_result,                       \* how the start_component call stands or ended
    config,                             \* what prepare() and start() of the configured classes do
    timeout,                            \* the timeout argument of start_component
    tree,                               \* the components instantiated by _init_component
    current,                            \* the context current_context() finds
    merged,                             \* a merge_config call: its arguments and what it returned
    registry                            \* child_components_by_alias and the _start_component calls

ctxvars == <<resources, resource_factories, resource_factories_by_context_attr,
             attributes, closed, calls, waiters, nadded>>

tdvars == <<teardown_callbacks, closing, invoked, finished, registered, scope, generators>>

startvars == <<task, status, cancel_called, tg_cancelled, startup_watcher, logged, component,
               config_keys, start_result,
               config, timeout, tree, current, merged, registry>>

vars == <<ctxvars, tdvars, startvars>>

(***************************************************************************)
(* The tables of all contexts as one value, so that a method that calls    *)
(* another method (get_resource -> generate_value -> add_resource ->       *)
(* dispatch) is one state change.                                          *)
(***************************************************************************)
Heap ==
    [res |-> resources, fac |-> resource_factories,
     fba |-> resource_factories_by_context_attr, att |-> attributes,
     calls |-> calls, wt |-> waiters]

Raise(h, exc) == [h |-> h, exc |-> exc, ret |-> NoneValue]
Return(h, v) == [h |-> h, exc |-> NoExc, ret |-> v]

\* getattr_static(ctx, name, None) is not None, for the names of AttrNames
hasattr(h, c, a) == h.att[c][a] # NoneValue

\* resource_name_re.fullmatch(name)
ValidName(name) == name \in WordNames

(***************************************************************************)
(* Signal dispatch and wait_event (asphalt.core.event): a dispatched       *)
(* ResourceEvent is handed, during the dispatch call, to every listener    *)
(* connected to the signal of the dispatching context.  A task waiting in  *)
(* request_resource listens on the signals of its whole context chain and  *)
(* is woken by the first event that passes its filter.                     *)
(***************************************************************************)
\* mutant: the filter does not look at where the event comes from
EventMatches_any_context(w, c, resource) ==
    /\ resource.name = w.name
    /\ w.type \in resource.types

EventMatches(w, c, resource) ==
    /\ c \in ChainSet(w.ctx)
    /\ resource.name = w.name
    /\ w.type \in resource.types

dispatch(h, c, resource) ==
    [h EXCEPT !.wt = [t \in DOMAIN h.wt |->
        IF h.wt[t].pc = "waiting" /\ EventMatches(h.wt[t], c, resource)
        THEN [h.wt[t] EXCEPT !.pc = "notified"]
        ELSE h.wt[t]]]

(***************************************************************************)
(* Context.add_resource                                                    *)
(***************************************************************************)
add_resource_types(value, types) ==
    IF types = {} THEN {TypeOf(value)} ELSE types

\* mutant: the (type, name) conflict check is missing
add_resource_check_no_conflict(h, c, value, name, context_attr, types) ==
    IF value = NoneValue THEN "ValueError"
    ELSE IF ~ValidName(name) THEN "ValueError"
    ELSE IF context_attr # NoAttr /\ hasattr(h, c, context_attr) THEN "ResourceConflict"
    ELSE NoExc

\* mutant: a (type, name) pair on any context of the chain is a conflict
add_resource_check_chain(h, c, value, name, context_attr, types) ==
    IF value = NoneValue THEN "ValueError"
    ELSE IF ~ValidName(name) THEN "ValueError"
    ELSE IF context_attr # NoAttr /\ hasattr(h, c, context_attr) THEN "ResourceConflict"
    ELSE IF \E resource_type \in types, d \in ChainSet(c) :
                h.res[d][<<resource_type, name>>] # NoEntry
         THEN "ResourceConflict"
    ELSE NoExc

add_resource_check(h, c, value, name, context_attr, types) ==
    IF value = NoneValue THEN "ValueError"
    ELSE IF ~ValidName(name) THEN "ValueError"
    ELSE IF context_attr # NoAttr /\ hasattr(h, c, context_attr) THEN "ResourceConflict"
    ELSE IF \E resource_type \in types : h.res[c][<<resource_type, name>>] # NoEntry
         THEN "ResourceConflict"
    ELSE NoExc

\* mutant: the container is stored under one of its types only
add_resource_store_one_type(h, c, resource) ==
    LET first == CHOOSE type_ \in resource.types : TRUE
        h1 == [h EXCEPT !.res[c] = [key \in Keys |->
                  IF key[1] = first /\ key[2] = resource.name
                  THEN resource ELSE h.res[c][key]]]
    IN  IF resource.context_attr # NoAttr
        THEN [h1 EXCEPT !.att[c][resource.context_attr] = resource.value_or_factory]
        ELSE h1

add_resource_store(h, c, resource) ==
    LET h1 == [h EXCEPT !.res[c] = [key \in Keys |->
                  IF key[1] \in resource.types /\ key[2] = resource.name
                  THEN resource ELSE h.res[c][key]]]
    IN  IF resource.context_attr # NoAttr
        THEN [h1 EXCEPT !.att[c][resource.context_attr] = resource.value_or_factory]
        ELSE h1

\* mutant: each type is checked and stored in turn, so a conflict on a later
\* type leaves the earlier ones registered
add_resource_type_by_type(h, c, value, name, context_attr, types0) ==
    LET types == add_resource_types(value, types0)
        exc == add_resource_check(h, c, value, name, context_attr, types)
        resource == ResourceContainer(value, types, name, context_attr, FALSE)
        free == {type_ \in types : h.res[c][<<type_, name>>] = NoEntry}
        part == ResourceContainer(value, free, name, NoAttr, FALSE)
    IN  IF exc = "ResourceConflict" /\ free # {} /\ free # types
        THEN Raise(add_resource_store(h, c, part), exc)
        ELSE IF exc # NoExc THEN Raise(h, exc)
        ELSE Return(dispatch(add_resource_store(h, c, resource), c, resource), value)

add_resource(h, c, value, name, context_attr, types0) ==
    LET types == add_resource_types(value, types0)
        exc == add_resource_check(h, c, value, name, context_attr, types)
        resource == ResourceContainer(value, types, name, context_attr, FALSE)
    IN  IF exc # NoExc THEN Raise(h, exc)
        ELSE Return(dispatch(add_resource_store(h, c, resource), c, resource), value)

(***************************************************************************)
(* Context.add_resource_factory                                            *)
(***************************************************************************)
add_resource_factory_check(h, c, factory_callback, types, name, context_attr) ==
    IF ~ValidName(name) THEN "ValueError"
    ELSE IF iscoroutinefunction(factory_callback) THEN "TypeError"
    ELSE IF types = {} THEN "ValueError"
    ELSE IF context_attr # NoAttr /\ h.fba[c][context_attr] # NoEntry THEN "ResourceConflict"
    ELSE IF \E type_ \in types : h.fac[c][<<type_, name>>] # NoEntry THEN "ResourceConflict"
    ELSE NoExc

add_resource_factory_store(h, c, resource) ==
    LET h1 == [h EXCEPT !.fac[c] = [key \in Keys |->
                  IF key[1] \in resource.types /\ key[2] = resource.name
                  THEN resource ELSE h.fac[c][key]]]
    IN  IF resource.context_attr # NoAttr
        THEN [h1 EXCEPT !.fba[c][resource.context_attr] = resource]
        ELSE h1

add_resource_factory(h, c, factory_callback, types, name, context_attr) ==
    LET exc == add_resource_factory_check(h, c, factory_callback, types, name, context_attr)
        resource == ResourceContainer(FactoryValue(factory_callback), types, name,
                                      context_attr, TRUE)
    IN  IF exc # NoExc THEN Raise(h, exc)
        ELSE Return(dispatch(add_resource_factory_store(h, c, resource), c, resource),
                    resource.value_or_factory)

(***************************************************************************)
(* ResourceContainer.generate_value: the factory callback is called with   *)
(* the requesting context and returns a new object; the object is then     *)
(* added to the requesting context as a resource.                          *)
(***************************************************************************)
\* mutant: the generated value is added without the context attribute
generate_value_no_attr(h, resource, c) ==
    LET f == resource.value_or_factory.fac
        value == GeneratedValue(f, c, h.calls[f][c] + 1)
        h1 == [h EXCEPT !.calls[f][c] = @ + 1]
        added == add_resource(h1, c, value, resource.name, NoAttr, resource.types)
    IN  IF added.exc # NoExc THEN Raise(h1, added.exc) ELSE Return(added.h, value)

generate_value(h, resource, c) ==
    LET f == resource.value_or_factory.fac
        value == GeneratedValue(f, c, h.calls[f][c] + 1)
        h1 == [h EXCEPT !.calls[f][c] = @ + 1]
        added == add_resource(h1, c, value, resource.name, resource.context_attr,
                              resource.types)
    IN  IF added.exc # NoExc THEN Raise(h1, added.exc) ELSE Return(added.h, value)

(***************************************************************************)
(* Context.get_resource                                                    *)
(***************************************************************************)
Min(S) == CHOOSE x \in S : \A y \in S : x <= y

\* next((... for ctx in self.context_chain if key in table[ctx]), None)
FirstInChain(table, c, key) ==
    LET chain == context_chain(c)
        hits == {i \in 1..Len(chain) : table[chain[i]][key] # NoEntry}
    IN  IF hits = {} THEN NoEntry ELSE table[chain[Min(hits)]][key]

get_resource(h, c, type, name) ==
    LET key == <<type, name>>
        own == IF key \in Keys THEN h.res[c][key] ELSE NoEntry
        factory == IF key \in Keys THEN FirstInChain(h.fac, c, key) ELSE NoEntry
        inherited == IF key \in Keys THEN FirstInChain(h.res, c, key) ELSE NoEntry
    IN  IF own # NoEntry THEN Return(h, own.value_or_factory)
        ELSE IF factory # NoEntry THEN generate_value(h, factory, c)
        ELSE Return(h, inherited.value_or_factory)

(***************************************************************************)
(* Context.require_resource                                                *)
(***************************************************************************)
require_resource(h, c, type, name) ==
    LET got == get_resource(h, c, type, name)
    IN  IF got.exc = NoExc /\ got.ret = NoneValue THEN Raise(got.h, "ResourceNotFound")
        ELSE got

(***************************************************************************)
(* Attribute access ctx.<name>: an attribute bound on the context itself   *)
(* is found by the normal lookup; Context.__getattr__ runs otherwise.      *)
(***************************************************************************)
getattr(h, c, name) ==
    LET chain == context_chain(c)
        fhits == {i \in 1..Len(chain) : h.fba[chain[i]][name] # NoEntry}
        ahits == {i \in 2..Len(chain) : hasattr(h, chain[i], name)}
    IN  IF hasattr(h, c, name) THEN Return(h, h.att[c][name])
        ELSE IF fhits # {} THEN generate_value(h, h.fba[chain[Min(fhits)]][name], c)
        ELSE IF ahits # {} THEN Return(h, h.att[chain[Min(ahits)]][name])
        ELSE Raise(h, "AttributeError")

(***************************************************************************)
(* Context.request_resource, run by task t.  The call runs get_resource    *)
(* and returns what it found; when that is None it connects to the signals *)
(* of the context chain in the same step and waits.  A notified task runs  *)
(* get_resource once more and returns the result.                          *)
(***************************************************************************)
finish_request(got, t) ==
    [h   |-> [got.h EXCEPT !.wt[t].pc = "done", !.wt[t].ret = got.ret, !.wt[t].exc = got.exc],
     exc |-> got.exc,
     ret |-> got.ret]

request_resource(h, t, c, type, name) ==
    LET h1 == [h EXCEPT !.wt[t].ctx = c, !.wt[t].type = type, !.wt[t].name = name]
        got == get_resource(h1, c, type, name)
    IN  IF got.exc # NoExc \/ got.ret # NoneValue THEN finish_request(got, t)
        ELSE Return([got.h EXCEPT !.wt[t].pc = "waiting", !.wt[t].waited = TRUE], NoneValue)

request_resource_resume(h, t) ==
    finish_request(get_resource(h, h.wt[t].ctx, h.wt[t].type, h.wt[t].name), t)

(***************************************************************************)
(* Teardown callbacks and close().                                         *)
(***************************************************************************)
NoArg == "no argument"
Exceptions == {"RuntimeError"}

Reverse(seq) == [i \in 1..Len(seq) |-> seq[Len(seq) + 1 - i]]
Ids(seq) == [i \in 1..Len(seq) |-> seq[i].id]
SeqSet(seq) == {seq[i] : i \in 1..Len(seq)}

\* entries: close() calls that got past _check_closed; rejected: a close()
\* call has raised the state error
NotClosing ==
    [pc |-> "open", todo |-> << >>, exception |-> NoExc, awaiting |-> 0,
     entries |-> 0, rejected |-> FALSE]

\* state: "none", "entered" (the body runs) or "exited"; exc_val: what
\* __aexit__ was called with, NoExc when the body returned
NotEntered == [state |-> "none", exc_val |-> NoExc]

\* mutant: the closed check never raises
check_closed_never(c) == NoExc

\* Context._check_closed
check_closed(c) == IF closed[c] THEN "RuntimeError" ELSE NoExc

\* close() deletes the attribute _teardown_callbacks in the step that sets
\* _closed, so the attribute exists exactly on the contexts that are not closed.
has_teardown_callbacks(c) == ~closed[c]

\* Context.add_teardown_callback: self._teardown_callbacks.append(...).  On a
\* closed context the attribute is missing and Context.__getattr__ answers
\* with the attribute of the nearest ancestor that still has it.
teardown_list_owner(c) ==
    LET chain == context_chain(c)
        hits == {i \in 2..Len(chain) : has_teardown_callbacks(chain[i])}
    IN  IF has_teardown_callbacks(c) THEN c
        ELSE IF hits # {} THEN chain[Min(hits)]
        ELSE NoCtx

add_teardown_callback(tc, c, callback) ==
    LET owner == teardown_list_owner(c)
    IN  IF owner = NoCtx THEN tc ELSE [tc EXCEPT ![owner] = Append(@, callback)]

\* mutant: the callbacks are called in the order of registration
close_order_forward(callbacks) == callbacks

\* callbacks = reversed(self._teardown_callbacks)
close_order(callbacks) == Reverse(callbacks)

\* mutant: every callback is called with the exception
callback_argument_always(callback, exception) == exception

\* callback(exception) if pass_exception else callback()
callback_argument(callback, exception) ==
    IF callback.pass_exception THEN exception ELSE NoArg

\* mutant: no except clause, every exception leaves close()
after_callback_uncaught(cl, outcome) ==
    IF outcome \in {"raise", "raise_base"}
    THEN [cl EXCEPT !.pc = "raised", !.todo = << >>, !.awaiting = 0]
    ELSE [cl EXCEPT !.pc = IF Len(cl.todo) = 1 THEN "returned" ELSE "loop",
                    !.todo = Tail(cl.todo), !.awaiting = 0]

\* except Exception: the loop goes on; any other BaseException leaves close()
after_callback(cl, outcome) ==
    IF outcome = "raise_base"
    THEN [cl EXCEPT !.pc = "raised", !.todo = << >>, !.awaiting = 0]
    ELSE [cl EXCEPT !.pc = IF Len(cl.todo) = 1 THEN "returned" ELSE "loop",
                    !.todo = Tail(cl.todo), !.awaiting = 0]

\* the loop of close() with the first callback of todo called
call_callback(cl, result) ==
    IF result = "awaitable"
    THEN [cl EXCEPT !.pc = "await", !.awaiting = Head(cl.todo).id]
    ELSE after_callback(cl, result)

TeardownInit ==
    /\ teardown_callbacks = [c \in Contexts |-> << >>]
    /\ closing = [c \in Contexts |-> NotClosing]
    /\ invoked = [c \in Contexts |-> << >>]
    /\ finished = [c \in Contexts |-> << >>]
    /\ registered = [c \in Contexts |-> << >>]
    /\ scope = [c \in Contexts |-> NotEntered]
    /\ generators = << >>

NumCallbacks == Len(registered[0]) + Len(registered[1]) + Len(registered[2])
                + Len(registered[3]) + Len(registered[4])

AddTeardownCallback(c, pass_exception) ==
    LET callback == [id |-> NumCallbacks + 1, pass_exception |-> pass_exception]
        owner == teardown_list_owner(c)
    IN  /\ NumCallbacks < MaxCallbacks
        /\ teardown_callbacks' = add_teardown_callback(teardown_callbacks, c, callback)
        /\ registered' = IF owner = NoCtx THEN registered
                         ELSE [registered EXCEPT ![owner] = Append(@, callback.id)]
        /\ UNCHANGED <<ctxvars, closing, invoked, finished, scope, generators, startvars>>

\* close(exception) past _check_closed: the callbacks are taken off the
\* context in reverse order and the loop begins
close_begin(cl, callbacks, exception) ==
    [pc |-> IF callbacks = << >> THEN "returned" ELSE "loop",
     todo |-> close_order(callbacks),
     exception |-> exception, awaiting |-> 0,
     entries |-> cl.entries + 1, rejected |-> cl.rejected]

\* close(exception) up to its first callback; a call that fails
\* _check_closed raises and changes nothing else
close(c, exception) ==
    /\ IF check_closed(c) # NoExc
       THEN /\ closing' = [closing EXCEPT ![c].rejected = TRUE]
            /\ UNCHANGED <<closed, teardown_callbacks>>
       ELSE /\ closed' = [closed EXCEPT ![c] = TRUE]
            /\ closing' = [closing EXCEPT ![c] =
                  close_begin(@, teardown_callbacks[c], exception)]
            /\ teardown_callbacks' = [teardown_callbacks EXCEPT ![c] = << >>]
    /\ UNCHANGED <<resources, resource_factories, resource_factories_by_context_attr,
                   attributes, calls, waiters, nadded, invoked, finished, registered,
                   generators, startvars>>

\* one iteration of the loop: the callback is called and returns, raises or
\* hands back an awaitable
CloseCallback(c, result) ==
    LET callback == Head(closing[c].todo)
    IN  /\ closing[c].pc = "loop"
        /\ invoked' = [invoked EXCEPT ![c] =
              Append(@, [id |-> callback.id,
                         arg |-> callback_argument(callback, closing[c].exception)])]
        /\ closing' = [closing EXCEPT ![c] = call_callback(@, result)]
        /\ finished' = IF result = "awaitable" THEN finished
                       ELSE [finished EXCEPT ![c] = Append(@, [id |-> callback.id, outcome |-> result])]
        /\ UNCHANGED <<ctxvars, teardown_callbacks, registered, scope, generators, startvars>>

\* await retval completes: the awaitable returns or raises
close_awaited(c, outcome) ==
    /\ closing[c].pc = "await"
    /\ closing' = [closing EXCEPT ![c] = after_callback(@, outcome)]
    /\ finished' = [finished EXCEPT ![c] = Append(@, [id |-> closing[c].awaiting, outcome |-> outcome])]
    /\ UNCHANGED <<ctxvars, teardown_callbacks, invoked, registered, scope, startvars>>

\* the awaitable of a callback that is no teardown_callback of a generator
CloseAwaited(c, outcome) == close_awaited(c, outcome) /\ UNCHANGED generators

\* a direct call of close()
Close(c, exception) == close(c, exception) /\ UNCHANGED scope

\* async with ctx: __aenter__ raises on a closed context and returns self
\* otherwise
aenter(c) ==
    /\ check_closed(c) = NoExc
    /\ scope[c].state = "none"
    /\ scope' = [scope EXCEPT ![c].state = "entered"]
    /\ UNCHANGED <<ctxvars, teardown_callbacks, closing, invoked, finished, registered,
                   generators, startvars>>

\* the body of the block is left, by returning (exc_val is None) or by the
\* exception exc_val: __aexit__ awaits self.close(exc_val)
aexit(c, exc_val) ==
    /\ scope[c].state = "entered"
    /\ close(c, exc_val)
    /\ scope' = [scope EXCEPT ![c] = [state |-> "exited", exc_val |-> exc_val]]

TeardownCtxs == {0, 1}
\* the contexts used as the scope of a block
ScopeCtxs == {1}
Outcomes == {"return", "raise", "raise_base"}

TeardownNext ==
    \/ \E c \in TeardownCtxs, pass_exception \in BOOLEAN : AddTeardownCallback(c, pass_exception)
    \/ \E c \in TeardownCtxs, exception \in Exceptions \cup {NoExc} : Close(c, exception)
    \/ \E c \in ScopeCtxs : aenter(c)
    \/ \E c \in ScopeCtxs, exc_val \in Exceptions \cup {NoExc} : aexit(c, exc_val)
    \/ \E c \in TeardownCtxs, result \in Outcomes \cup {"awaitable"} : CloseCallback(c, result)
    \/ \E c \in TeardownCtxs, outcome \in Outcomes : CloseAwaited(c, outcome)

(***************************************************************************)
(* context_teardown.  A call of the wrapper starts the wrapped async       *)
(* generator and runs it to its first yield; the rest of the generator     *)
(* runs in teardown_callback, which the wrapper adds to the context with   *)
(* pass_exception=True.                                                    *)
(***************************************************************************)
\* calls of wrapped functions
MaxGenerators == 2

\* how the generator leaves asend(None): it yields, it finishes without a
\* yield (StopAsyncIteration), or it raises
FirstParts == {"yield", "return", "raise"}
\* how it leaves asend(exception): it finishes, raises, or yields once more
AfterParts == Outcomes \cup {"yield"}

\* mutant: the callback is added whatever asend(None) did
wrapper_adds_callback_always(first) == TRUE

\* try: await generator.asend(None) ... else: ctx.add_teardown_callback(...)
wrapper_adds_callback(first) == first = "yield"

\* the exception the wrapper raises
wrapper_raises(has_context, first, owner) ==
    IF ~has_context THEN "RuntimeError"
    ELSE IF first = "return" THEN "RuntimeError"
    ELSE IF first = "raise" THEN "Error"
    ELSE IF owner = NoCtx THEN "AttributeError"
    ELSE NoExc

\* wrapper(*args): has_context says whether the first or second positional
\* argument is a Context, first what the generator does up to its first yield
ContextTeardown(c, has_context, first) ==
    LET callback == [id |-> NumCallbacks + 1, pass_exception |-> TRUE]
        owner == teardown_list_owner(c)
        adds == has_context /\ wrapper_adds_callback(first) /\ owner # NoCtx
        generator == [ctx |-> c, open |-> ~closed[c],
                      first |-> IF has_context THEN first ELSE "none",
                      callback |-> IF adds THEN callback.id ELSE 0,
                      sent |-> << >>,
                      exc |-> wrapper_raises(has_context, first, owner)]
    IN  /\ Len(generators) < MaxGenerators
        /\ adds => NumCallbacks < MaxCallbacks
        /\ generators' = Append(generators, generator)
        /\ teardown_callbacks' = IF adds
                                 THEN add_teardown_callback(teardown_callbacks, c, callback)
                                 ELSE teardown_callbacks
        /\ registered' = IF adds THEN [registered EXCEPT ![owner] = Append(@, callback.id)]
                         ELSE registered
        /\ UNCHANGED <<ctxvars, closing, invoked, finished, scope, startvars>>

\* the callback with this id is the teardown_callback of a generator
IsTeardownCallback(id) == \E g \in 1..Len(generators) : generators[g].callback = id

\* what teardown_callback ends with: StopAsyncIteration is passed over, a
\* second yield is answered by aclose(), an exception goes on after aclose()
teardown_callback(after) == IF after = "yield" THEN "return" ELSE after

\* close() awaits the coroutine teardown_callback(exception) returned: the
\* generator is resumed by asend(exception) and runs its second part
TeardownCallbackAwaited(c, after) ==
    /\ closing[c].pc = "await"
    /\ IsTeardownCallback(closing[c].awaiting)
    /\ close_awaited(c, teardown_callback(after))
    /\ generators' = [g \in 1..Len(generators) |->
                         IF generators[g].callback = closing[c].awaiting
                         THEN [generators[g] EXCEPT
                                  !.sent = Append(@, [by |-> c,
                                                      exception |-> invoked[c][Len(invoked[c])].arg,
                                                      after |-> after])]
                         ELSE generators[g]]

\* the contexts the wrapped functions are called with
GeneratorCtxs == {1}

\* the other callbacks of the context are plain functions here: they return, or
\* raise what close() does not catch
GeneratorNext ==
    \/ \E c \in GeneratorCtxs, has_context \in BOOLEAN, first \in FirstParts :
          ContextTeardown(c, has_context, first)
    \/ \E c \in GeneratorCtxs : AddTeardownCallback(c, FALSE)
    \/ \E c \in TeardownCtxs, exception \in Exceptions \cup {NoExc} : Close(c, exception)
    \/ \E c \in TeardownCtxs, result \in {"return", "raise_base"} :
          /\ closing[c].pc = "loop"
          /\ ~IsTeardownCallback(Head(closing[c].todo).id)
          /\ CloseCallback(c, result)
    \/ \E c \in TeardownCtxs :
          /\ closing[c].pc = "loop"
          /\ IsTeardownCallback(Head(closing[c].todo).id)
          /\ CloseCallback(c, "awaitable")
    \/ \E c \in TeardownCtxs, after \in AfterParts : TeardownCallbackAwaited(c, after)


(***************************************************************************)
(* The component tree.  Component n runs under ComponentContext n, whose   *)
(* parent is the context that was current when its _start_component began: *)
(* the ComponentContext of its parent component, or for the root the       *)
(* ambient context 0.                                                      *)
(***************************************************************************)
Root == 1
Components == {1, 2, 3, 4}

\* what _init_component can instantiate: the root alone, the root with two
\* children, and the same with a grandchild below the first child
TreeShapes == {{1}, {1, 2, 3}, {1, 2, 3, 4}}

NoTail == "None"
NoName == "None"
NoTimeout == "None"
Timeouts == {NoTimeout, "finite"}

\* the alias a component is configured under, split at its first "/"
alias(n) ==
    CASE n = 2 -> [head |-> "a", tail |-> "x"]
      [] n = 3 -> [head |-> "b c", tail |-> NoTail]
      [] n = 4 -> [head |-> "g", tail |-> NoTail]
      [] OTHER -> [head |-> "", tail |-> NoTail]

\* the same aliases character by character: "a/x", "b c" and "g"
alias_chars(n) ==
    CASE n = 2 -> <<"a", "/", "x">>
      [] n = 3 -> <<"b", " ", "c">>
      [] n = 4 -> <<"g">>
      [] OTHER -> << >>

\* final_path = f"{path}.{alias}" if path else alias
RECURSIVE final_path(_)
final_path(n) ==
    IF n = Root THEN << >>
    ELSE IF final_path(parent(n)) = << >> THEN alias_chars(n)
    ELSE final_path(parent(n)) \o <<".">> \o alias_chars(n)

\* qualified_name(component), a run of characters that are not space
qualified_name(n) == <<"Component">>

\* name=f"Starting {final_path} ({qualified_name(child_component)})", with
\* the word "Starting" as one character that is not space
task_name(n) ==
    <<"Starting", " ">> \o final_path(n) \o <<" ", "(">> \o qualified_name(n) \o <<")">>

\* _start_component's default_resource_name argument
default_resource_name(n) ==
    IF n # Root /\ alias(n).tail # NoTail THEN alias(n).tail ELSE "default"

\* child_components_by_alias.get(path)
child_components(n) == {c \in tree : parent(c) = n}

RECURSIVE Descendants(_)
Descendants(n) ==
    {c \in Components : parent(c) = n}
        \cup UNION {Descendants(c) : c \in {d \in Components : parent(d) = n}}

\* the classes configured: "publish" has the first child add a resource in
\* start() and the second child request it; "free" lets every component do
\* anything
Configs == {"publish", "free"}

\* errors: the exceptions of components that the exception exc carries
NoTask ==
    [pc |-> "none", blk |-> "none", doomed |-> FALSE, start_called |-> FALSE, exc |-> NoExc,
     errors |-> {}]

\* a component that has not been instantiated
\* child_components: the keys of _child_components; declared: its values
NoDeclaration == [type |-> "None", config |-> "None"]
NoComponent ==
    [instantiated |-> FALSE, component_started |-> FALSE, child_components |-> {},
     declared |-> [c \in Components |-> NoDeclaration]]

\* the config mapping names the child components
ConfigKeys == {"components"}

(***************************************************************************)
(* merge_config.  A mapping is a function from keys to values; a key is    *)
(* the sequence of the segments its text has between dots ("b.x" is        *)
(* <<"b", "x">>), a value is a scalar, a list or a mapping.  The overrides *)
(* argument keeps the order of its items, which is the order merge_config  *)
(* iterates them in: it is a sequence of <<key, value>> items, and so is   *)
(* every mapping nested in it.                                             *)
(***************************************************************************)
Scalar(v) == [kind |-> "scalar", val |-> v]
List(v) == [kind |-> "list", val |-> v]
Mapping(m) == [kind |-> "mapping", val |-> m]
EmptyMapping == << >>
Key(s) == <<s>>

NoResult == [kind |-> "none", val |-> EmptyMapping]
NoMerge == [original |-> EmptyMapping, overrides |-> << >>, result |-> NoResult]

\* mutant: a mapping of the overrides replaces the original's mapping
RECURSIVE merge_config_shallow(_, _)
merge_config_shallow(original, overrides) ==
    IF overrides = << >> THEN original
    ELSE LET item == Head(overrides)
             key == Key(item[1][1])
             value == IF Len(item[1]) > 1
                      THEN Mapping(<< <<Tail(item[1]), item[2]>> >>)
                      ELSE item[2]
             new == IF value.kind = "mapping"
                    THEN Mapping(merge_config_shallow(EmptyMapping, value.val))
                    ELSE value
         IN  merge_config_shallow([k \in DOMAIN original \cup {key} |->
                                      IF k = key THEN new ELSE original[k]],
                                  Tail(overrides))

\* merge_config(original, overrides): a copy of original into which every
\* item of overrides is merged in turn; a dotted key stands for the nested
\* mapping, two mappings are merged recursively, anything else replaces
RECURSIVE merge_config(_, _)
merge_config(original, overrides) ==
    IF overrides = << >> THEN original
    ELSE LET item == Head(overrides)
             key == Key(item[1][1])
             value == IF Len(item[1]) > 1
                      THEN Mapping(<< <<Tail(item[1]), item[2]>> >>)
                      ELSE item[2]
             orig_value == IF key \in DOMAIN original /\ original[key].kind = "mapping"
                           THEN original[key].val
                           ELSE EmptyMapping
             new == IF value.kind = "mapping"
                    THEN Mapping(merge_config(orig_value, value.val))
                    ELSE value
         IN  merge_config([k \in DOMAIN original \cup {key} |->
                              IF k = key THEN new ELSE original[k]],
                          Tail(overrides))

(***************************************************************************)
(* The registry of child components.  _init_component stores the children  *)
(* of the component at a path under that path in child_components_by_alias *)
(* and _start_component looks them up by the path it was given.  A path is *)
(* the text f"{path}.{alias}", a sequence of characters here.              *)
(***************************************************************************)
NoRegistry ==
    [nodes |-> {}, aliases |-> << >>, order |-> << >>, by_alias |-> << >>, calls |-> << >>,
     result |-> "none"]

NotStarted ==
    /\ component = [n \in Components |-> NoComponent]
    /\ config_keys = ConfigKeys
    /\ task = [n \in Components |-> NoTask]
    /\ status = [n \in Components |-> "none"]
    /\ cancel_called = FALSE
    /\ tg_cancelled = [n \in Components |-> FALSE]
    /\ startup_watcher = "none"
    /\ logged = << >>
    /\ start_result = "none"
    /\ merged = NoMerge
    /\ registry = NoRegistry

(***************************************************************************)
(* Initial state: every context constructed and open, nothing registered.  *)
(***************************************************************************)
Tasks == 1..MaxWaiters

IdleWaiter ==
    [pc |-> "idle", ctx |-> 0, type |-> "T1", name |-> "default",
     waited |-> FALSE, ret |-> NoneValue, exc |-> NoExc]

CtxInit ==
    /\ resources = [c \in Contexts |-> [key \in Keys |-> NoEntry]]
    /\ resource_factories = [c \in Contexts |-> [key \in Keys |-> NoEntry]]
    /\ resource_factories_by_context_attr = [c \in Contexts |-> [a \in AttrNames |-> NoEntry]]
    /\ attributes = [c \in Contexts |-> [a \in AttrNames |-> NoneValue]]
    /\ closed = [c \in Contexts |-> FALSE]
    /\ calls = [f \in FactoryFns |-> [c \in Contexts |-> 0]]
    /\ waiters = [t \in Tasks |-> IdleWaiter]
    /\ nadded = 0

\* the state after a method has run on heap h
Apply(h) ==
    /\ resources' = h.res
    /\ resource_factories' = h.fac
    /\ resource_factories_by_context_attr' = h.fba
    /\ attributes' = h.att
    /\ calls' = h.calls
    /\ waiters' = h.wt

NumClosed == Cardinality({c \in Contexts : closed[c]})

CallsBounded(h) == \A f \in FactoryFns, c \in Contexts : h.calls[f][c] <= MaxCalls

(***************************************************************************)
(* Actions of the lookup specification: one per method call.  A call that  *)
(* raises leaves the state as the method left it.                          *)
(***************************************************************************)
LookupCtxs == {0, 1, 2}

\* the context the lookup specification may close: it has a parent and a child
ClosableCtxs == {1}

AddResource(c, value, name, context_attr, types) ==
    LET out == add_resource(Heap, c, value, name, context_attr, types)
    IN  /\ nadded < MaxAdds
        /\ Apply(out.h)
        /\ nadded' = IF out.exc = NoExc THEN nadded + 1 ELSE nadded
        /\ UNCHANGED <<closed, tdvars, startvars>>

AddResourceFactory(c, factory_callback, types, name, context_attr) ==
    LET out == add_resource_factory(Heap, c, factory_callback, types, name, context_attr)
    IN  /\ nadded < MaxAdds
        /\ Apply(out.h)
        /\ nadded' = IF out.exc = NoExc THEN nadded + 1 ELSE nadded
        /\ UNCHANGED <<closed, tdvars, startvars>>

GetResource(c, type, name) ==
    LET out == get_resource(Heap, c, type, name)
    IN  /\ CallsBounded(out.h)
        /\ Apply(out.h)
        /\ UNCHANGED <<closed, nadded, tdvars, startvars>>

RequireResource(c, type, name) ==
    LET out == require_resource(Heap, c, type, name)
    IN  /\ CallsBounded(out.h)
        /\ Apply(out.h)
        /\ UNCHANGED <<closed, nadded, tdvars, startvars>>

GetAttr(c, name) ==
    LET out == getattr(Heap, c, name)
    IN  /\ CallsBounded(out.h)
        /\ Apply(out.h)
        /\ UNCHANGED <<closed, nadded, tdvars, startvars>>

\* the context specifications never call start_component
Init ==
    /\ CtxInit /\ TeardownInit /\ NotStarted
    /\ config = "free" /\ timeout = NoTimeout /\ tree = {Root} /\ current = 0

\* the object, and the callback, a new registration passes
NewValue == UserValue(nadded + 1)
NewFactoryFn == nadded + 1

Next ==
    \/ \E c \in LookupCtxs, name \in WordNames, context_attr \in AttrNames \cup {NoAttr},
          types \in SUBSET Types :
            AddResource(c, NewValue, name, context_attr, types)
    \/ \E c \in LookupCtxs, value \in {NewValue, NoneValue}, name \in WordNames \cup BadNames :
            AddResource(c, value, name, NoAttr, {})
    \/ \E c \in LookupCtxs, types \in SUBSET Types, name \in WordNames,
          context_attr \in AttrNames \cup {NoAttr} :
            AddResourceFactory(c, NewFactoryFn, types, name, context_attr)
    \/ \E c \in LookupCtxs, f \in {NewFactoryFn, CoroutineFn}, name \in WordNames \cup BadNames :
            AddResourceFactory(c, f, {"T1"}, name, NoAttr)
    \/ \E c \in LookupCtxs, type \in Types, name \in WordNames : GetResource(c, type, name)
    \/ \E c \in LookupCtxs, type \in Types, name \in WordNames : RequireResource(c, type, name)
    \/ \E c \in LookupCtxs, name \in AttrNames : GetAttr(c, name)
    \/ \E c \in ClosableCtxs : NumClosed < MaxCloses /\ Close(c, NoExc)

Spec == Init /\ [][Next]_vars

TeardownSpec == Init /\ [][TeardownNext]_vars

GeneratorSpec == Init /\ [][GeneratorNext]_vars

(***************************************************************************)
(* The request specification: registrations on a tree with two sibling     *)
(* branches while a task calls request_resource.                           *)
(***************************************************************************)
RequestCtxs == {0, 1, 2, 3}
WaiterCtxs == {1, 2}

RequestResource(t, c, type, name) ==
    LET out == request_resource(Heap, t, c, type, name)
    IN  /\ waiters[t].pc = "idle"
        /\ CallsBounded(out.h)
        /\ Apply(out.h)
        /\ UNCHANGED <<closed, nadded, tdvars, startvars>>

RequestResume(t) ==
    LET out == request_resource_resume(Heap, t)
    IN  /\ waiters[t].pc = "notified"
        /\ CallsBounded(out.h)
        /\ Apply(out.h)
        /\ UNCHANGED <<closed, nadded, tdvars, startvars>>

RequestNext ==
    \/ \E c \in RequestCtxs, name \in WordNames, context_attr \in AttrNames \cup {NoAttr},
          types \in SUBSET Types :
            AddResource(c, NewValue, name, context_attr, types)
    \/ \E c \in RequestCtxs, types \in SUBSET Types, name \in WordNames,
          context_attr \in AttrNames \cup {NoAttr} :
            AddResourceFactory(c, NewFactoryFn, types, name, context_attr)
    \/ \E t \in Tasks, c \in WaiterCtxs, type \in Types, name \in WordNames :
            RequestResource(t, c, type, name)
    \/ \E t \in Tasks : RequestResume(t)

RequestSpec == Init /\ [][RequestNext]_vars

(***************************************************************************)
(* The startup orchestrator.  The state of a start_component run as one    *)
(* value; a task runs from the point where it is resumed to its next       *)
(* suspension point in one step, and what prepare() and start() do is      *)
(* chosen when they are called.                                            *)
(***************************************************************************)
StartHeap ==
    [h |-> Heap, closed |-> closed, task |-> task, status |-> status,
     cancel_called |-> cancel_called, tg |-> tg_cancelled,
     watcher |-> startup_watcher, logged |-> logged, result |-> start_result,
     component |-> component, config_keys |-> config_keys,
     closing |-> closing, scope |-> scope]

\* the task that waits in request_resource during startup
Waiter == 1
RequestedType == "T1"
RequestedName == default_resource_name(2)

\* mutant: the watcher is left running when start_component returns
start_component_exit_watcher_left(S) ==
    IF S.cancel_called THEN [S EXCEPT !.result = "TimeoutError"]
    ELSE [S EXCEPT !.result = "returned"]

\* the tail of start_component: the startup scope has been left without an
\* error other than its own cancellation
\* mutant: the cancellation of the startup scope is not looked at
start_component_exit_no_timeout(S) ==
    [S EXCEPT !.result = "returned",
              !.watcher = IF @ = "sleeping" THEN "cancelled" ELSE @]

start_component_exit(S) ==
    IF S.cancel_called THEN [S EXCEPT !.result = "TimeoutError"]
    ELSE [S EXCEPT !.result = "returned",
                   !.watcher = IF @ = "sleeping" THEN "cancelled" ELSE @]

\* "async with ComponentContext(...)" is entered by the task of n
context_enter(S, n) ==
    [S EXCEPT !.status[n] = "preparing", !.scope[n].state = "entered"]

\* mutant: the group raised by a task group carries the exception of one
\* child task only
raised_errors_first(S, n, pc, exc) ==
    LET failed == {c \in child_components(n) : S.task[c].pc = "failed"}
    IN  IF pc # "failed" THEN {}
        ELSE IF exc = "ExceptionGroup" THEN S.task[Min(failed)].errors
        ELSE {<<n, exc>>}

\* what the exception that ends the task of n carries: the exception raised
\* by prepare() or start() of n itself, or in the group raised by the task
\* group of n what every failed child task raised
raised_errors(S, n, pc, exc) ==
    LET failed == {c \in child_components(n) : S.task[c].pc = "failed"}
    IN  IF pc # "failed" THEN {}
        ELSE IF exc = "ExceptionGroup" THEN UNION {S.task[c].errors : c \in failed}
        ELSE {<<n, exc>>}

\* mutant: a cancelled task leaves its context open
context_exit_cancelled_open(S, n, pc, exc) ==
    [S EXCEPT !.closed[n] = (pc # "cancelled"),
              !.closing[n] = IF pc = "cancelled" THEN @
                             ELSE close_begin(@, teardown_callbacks[n], exc),
              !.scope[n] = [state |-> "exited", exc_val |-> exc],
              !.task[n].pc = pc, !.task[n].blk = "none",
              !.task[n].doomed = FALSE, !.task[n].exc = exc,
              !.task[n].errors = raised_errors(S, n, pc, exc)]

\* leaving "async with ComponentContext(...)", by returning (exc is None),
\* by an error or by the cancellation: __aexit__ closes the context with
\* the exception that left the block
context_exit(S, n, pc, exc) ==
    [S EXCEPT !.closed[n] = TRUE,
              !.closing[n] = close_begin(@, teardown_callbacks[n], exc),
              !.scope[n] = [state |-> "exited", exc_val |-> exc],
              !.task[n].pc = pc, !.task[n].blk = "none",
              !.task[n].doomed = FALSE, !.task[n].exc = exc,
              !.task[n].errors = raised_errors(S, n, pc, exc)]

\* a cancel scope around the task of n has been cancelled
scope_cancelled(S, n) ==
    S.cancel_called \/ \E p \in (ChainSet(n) \ {n}) \cap Components : S.tg[p]

Finished(S, n) == S.task[n].pc \in {"done", "failed", "cancelled"}

\* the task of n is suspended and what it waits for has not happened; a
\* sleeping task may have been woken by its timer already
NotWoken(S, n) ==
    \/ S.task[n].blk = "hang"
    \/ S.task[n].blk = "request" /\ S.h.wt[Waiter].pc = "waiting"
    \/ S.task[n].pc = "children" /\ \E c \in child_components(n) : ~Finished(S, c)

\* a scope is cancelled: the cancellation is delivered to the tasks in it
\* that are suspended and not woken; a task that runs, or is about to, goes
\* on to its next suspension point
deliver_cancellation(S, members) ==
    [S EXCEPT !.task = [m \in Components |->
        IF m \in members /\ NotWoken(S, m) THEN [S.task[m] EXCEPT !.doomed = TRUE]
        ELSE S.task[m]]]

\* the task of n suspends; inside a cancelled scope it is cancelled there
suspend(S, n, pc, blk) ==
    [S EXCEPT !.task[n].pc = pc, !.task[n].blk = blk,
              !.task[n].doomed = scope_cancelled(S, n)]

\* start() returned
finish(S, n) ==
    LET S1 == context_exit(S, n, "done", NoExc)
    IN  IF n = Root THEN start_component_exit(S1) ELSE S1

\* mutant: the error of a child task does not cancel the task group
fail_no_cancel(S, n, exc) ==
    LET S1 == context_exit(S, n, "failed", exc)
    IN  IF n = Root THEN [S1 EXCEPT !.result = "raised"] ELSE S1

\* an error leaves _start_component: in a child task it cancels the task
\* group of the parent, in the root it leaves start_component
fail(S, n, exc) ==
    LET S1 == context_exit(S, n, "failed", exc)
    IN  IF n = Root THEN [S1 EXCEPT !.result = "raised"]
        ELSE deliver_cancellation([S1 EXCEPT !.tg[parent(n)] = TRUE],
                                  Descendants(parent(n)))

\* the cancellation of an enclosing scope is raised at a suspension point
cancel(S, n) ==
    LET S1 == context_exit(S, n, "cancelled", "CancelledError")
        S2 == IF S.task[n].blk = "request"
              THEN [S1 EXCEPT !.h.wt[Waiter].pc = "cancelled"] ELSE S1
    IN  IF n = Root THEN start_component_exit(S2) ELSE S2

\* mutant: the resource is stored on the component's own context only
ComponentContext_add_resource_own_only(S, n, value, name, types) ==
    LET name1 == IF S.status[n] = "preparing" THEN "default" ELSE name
    IN  add_resource(S.h, n, value, IF name1 = NoName THEN "default" ELSE name1, NoAttr, types)

\* mutant: the resource is handed on to the parent's own add_resource, which
\* hands it on again
ComponentContext_add_resource_all_levels(S, n, value, name, types) ==
    LET name1 == IF S.status[n] = "preparing" THEN "default" ELSE name
        own == add_resource(S.h, n, value, IF name1 = NoName THEN "default" ELSE name1,
                            NoAttr, types)
        pname == IF name1 = NoName THEN default_resource_name(n) ELSE name1
        up == add_resource(own.h, parent(n), value, pname, NoAttr, types)
        upup == add_resource(up.h, parent(parent(n)), value, pname, NoAttr, types)
    IN  IF own.exc # NoExc THEN own
        ELSE IF parent(n) # NoCtx /\ S.status[n] = "starting"
        THEN (IF up.exc = NoExc /\ parent(parent(n)) # NoCtx THEN upup ELSE up)
        ELSE own

\* mutant: the name argument is used whatever the status
ComponentContext_add_resource_keep_name(S, n, value, name, types) ==
    LET own == add_resource(S.h, n, value, IF name = NoName THEN "default" ELSE name,
                            NoAttr, types)
        up == add_resource(own.h, parent(n), value,
                           IF name = NoName THEN default_resource_name(n) ELSE name,
                           NoAttr, types)
    IN  IF own.exc # NoExc THEN own
        ELSE IF parent(n) # NoCtx /\ S.status[n] = "starting" THEN up
        ELSE own

\* mutant: the resource is stored on the parent whatever the status
ComponentContext_add_resource_always_up(S, n, value, name, types) ==
    LET name1 == IF S.status[n] = "preparing" THEN "default" ELSE name
        own == add_resource(S.h, n, value, IF name1 = NoName THEN "default" ELSE name1,
                            NoAttr, types)
        up == add_resource(own.h, parent(n), value,
                           IF name1 = NoName THEN default_resource_name(n) ELSE name1,
                           NoAttr, types)
    IN  IF own.exc # NoExc THEN own
        ELSE IF parent(n) # NoCtx THEN up
        ELSE own

ComponentContext_add_resource(S, n, value, name, types) ==
    LET name1 == IF S.status[n] = "preparing" THEN "default" ELSE name
        own == add_resource(S.h, n, value, IF name1 = NoName THEN "default" ELSE name1,
                            NoAttr, types)
        up == add_resource(own.h, parent(n), value,
                           IF name1 = NoName THEN default_resource_name(n) ELSE name1,
                           NoAttr, types)
    IN  IF own.exc # NoExc THEN own
        ELSE IF parent(n) # NoCtx /\ S.status[n] = "starting" THEN up
        ELSE own

\* self._parent.add_resource_factory is the parent's own method: that of
\* ComponentContext when the parent is the context of a component
RECURSIVE ComponentContext_add_resource_factory(_, _, _, _, _)
ComponentContext_add_resource_factory(S, n, factory_callback, name, types) ==
    LET name1 == IF S.status[n] = "preparing" THEN "default" ELSE name
        own == add_resource_factory(S.h, n, factory_callback, types,
                                    IF name1 = NoName THEN "default" ELSE name1, NoAttr)
        S1 == [S EXCEPT !.h = own.h]
    IN  IF own.exc # NoExc THEN own
        ELSE IF parent(n) # NoCtx /\ S.status[n] = "starting"
        THEN (IF parent(n) \in Components
              THEN ComponentContext_add_resource_factory(S1, parent(n), factory_callback,
                                                         name1, types)
              ELSE add_resource_factory(own.h, parent(n), factory_callback, types,
                                        IF name1 = NoName THEN "default" ELSE name1, NoAttr))
        ELSE own

\* mutant: the callback is stored by the base method on the context itself
ComponentContext_add_teardown_callback_own(tc, n, callback) ==
    add_teardown_callback(tc, n, callback)

\* self._parent.add_teardown_callback(callback, pass_exception): the parent's
\* own method, this one again when the parent is the context of a component
RECURSIVE ComponentContext_add_teardown_callback(_, _, _)
ComponentContext_add_teardown_callback(tc, n, callback) ==
    IF parent(n) \in Components
    THEN ComponentContext_add_teardown_callback(tc, parent(n), callback)
    ELSE add_teardown_callback(tc, parent(n), callback)

\* the factory callback and the type the components register it for
ComponentFactoryFn == 1
ComponentFactoryType == "T2"

StartBehaviours(S, n) ==
    IF config = "publish"
    THEN (IF n = 2 THEN {"add"} ELSE IF n = 3 THEN {"request"} ELSE {"return", "sleep"})
    ELSE {"return", "sleep", "hang", "raise", "add", "factory"}
            \cup (IF S.h.wt[Waiter].pc = "idle" THEN {"request"} ELSE {})

PrepareBehaviours(n) ==
    IF config = "publish" THEN {"return", "sleep"}
    ELSE {"return", "sleep", "hang", "raise", "add", "factory"}

\* await component.start(), up to its first suspension point
start(S, n, b) ==
    LET S0 == [S EXCEPT !.task[n].start_called = TRUE]
        added == ComponentContext_add_resource(S0, n, UserValue(n), NoName, {})
        fadded == ComponentContext_add_resource_factory(S0, n, ComponentFactoryFn, NoName,
                                                        {ComponentFactoryType})
        req == request_resource(S0.h, Waiter, n, RequestedType, RequestedName)
    IN  CASE b = "return" -> finish(S0, n)
          [] b \in {"sleep", "hang"} -> suspend(S0, n, "start", b)
          [] b = "raise" -> fail(S0, n, "Error")
          [] b = "add" ->
                IF added.exc # NoExc THEN fail([S0 EXCEPT !.h = added.h], n, added.exc)
                ELSE finish([S0 EXCEPT !.h = added.h], n)
          [] b = "factory" ->
                IF fadded.exc # NoExc THEN fail([S0 EXCEPT !.h = fadded.h], n, fadded.exc)
                ELSE finish([S0 EXCEPT !.h = fadded.h], n)
          [] b = "request" ->
                IF req.h.wt[Waiter].pc = "waiting"
                THEN suspend([S0 EXCEPT !.h = req.h], n, "start", "request")
                ELSE IF req.exc # NoExc THEN fail([S0 EXCEPT !.h = req.h], n, req.exc)
                ELSE finish([S0 EXCEPT !.h = req.h], n)

StartOutcomes(S, n) == {start(S, n, b) : b \in StartBehaviours(S, n)}

\* mutant: start() is called right after the child tasks have been spawned
after_prepare_no_wait(S, n) ==
    LET S1 == [S EXCEPT !.status[n] = "starting"]
    IN  StartOutcomes([S1 EXCEPT !.task = [c \in Components |->
                          IF c \in child_components(n)
                          THEN [S1.task[c] EXCEPT !.pc = "spawned"] ELSE S1.task[c]]], n)

\* mutant: the status is left as it was when prepare() has returned
after_prepare_no_status(S, n) ==
    IF child_components(n) # {}
    THEN {[S EXCEPT !.task = [c \in Components |->
             IF c \in child_components(n) THEN [S.task[c] EXCEPT !.pc = "spawned"]
             ELSE IF c = n THEN suspend(S, n, "children", "none").task[n]
             ELSE S.task[c]]]}
    ELSE StartOutcomes(S, n)

\* _start_component after prepare() has returned: the status flips, the
\* children are spawned and the task waits for them at the end of the task
\* group; without children start() is called at once
after_prepare(S, n) ==
    LET S1 == [S EXCEPT !.status[n] = "starting"]
    IN  IF child_components(n) # {}
        THEN {[S1 EXCEPT !.task = [c \in Components |->
                 IF c \in child_components(n) THEN [S1.task[c] EXCEPT !.pc = "spawned"]
                 ELSE IF c = n THEN suspend(S1, n, "children", "none").task[n]
                 ELSE S1.task[c]]]}
        ELSE StartOutcomes(S1, n)

\* await component.prepare(), up to its first suspension point
prepare(S, n, b) ==
    LET added == ComponentContext_add_resource(S, n, UserValue(n), NoName, {})
        fadded == ComponentContext_add_resource_factory(S, n, ComponentFactoryFn, NoName,
                                                        {ComponentFactoryType})
    IN  CASE b = "return" -> after_prepare(S, n)
          [] b \in {"sleep", "hang"} -> {suspend(S, n, "prepare", b)}
          [] b = "raise" -> {fail(S, n, "Error")}
          [] b = "add" ->
                IF added.exc # NoExc THEN {fail([S EXCEPT !.h = added.h], n, added.exc)}
                ELSE after_prepare([S EXCEPT !.h = added.h], n)
          [] b = "factory" ->
                IF fadded.exc # NoExc THEN {fail([S EXCEPT !.h = fadded.h], n, fadded.exc)}
                ELSE after_prepare([S EXCEPT !.h = fadded.h], n)

\* _start_component from its first line: the ComponentContext is entered
\* and prepare() is called
start_component_task(S, n) ==
    LET S0 == [S EXCEPT !.component[n].component_started = TRUE]
    IN  UNION {prepare(context_enter(S0, n), n, b) : b \in PrepareBehaviours(n)}

\* the task group of n has no running child task left: the errors of the
\* children are raised in the parent, else the cancellation delivered to
\* the parent, else start() is called
children_done(S, n) ==
    IF \E c \in child_components(n) : S.task[c].pc = "failed"
    THEN {fail(S, n, "ExceptionGroup")}
    ELSE IF S.task[n].doomed THEN {cancel(S, n)}
    ELSE StartOutcomes(S, n)

\* mutant: the watcher logs the diagnostic and does not cancel the scope
watcher_timeout_no_cancel(S) == [S EXCEPT !.watcher = "fired"]

NoMatch == [matched |-> FALSE, alias |-> << >>, name |-> << >>]
NoAlias == << >>
NoTaskId == 0
Max(S) == CHOOSE x \in S : \A y \in S : x >= y

\* re.compile(r"^Starting (\S+) \((.+)\)$").match(name): the ends of a
\* first group of characters that are not space, followed by " (", at
\* least one character and the closing ")"; the first group is greedy
component_task_re_match(name) ==
    LET ends == {i \in 3..(Len(name) - 4) :
                    /\ \A k \in 3..i : name[k] # " "
                    /\ name[i + 1] = " " /\ name[i + 2] = "("
                    /\ name[Len(name)] = ")"}
    IN  IF Len(name) < 7 \/ name[1] # "Starting" \/ name[2] # " " \/ ends = {} THEN NoMatch
        ELSE [matched |-> TRUE,
              alias |-> SubSeq(name, 3, Max(ends)),
              name |-> SubSeq(name, Max(ends) + 3, Len(name) - 1)]

\* get_running_tasks(): the task that called start_component, which runs
\* the start pass of the root, and the child tasks that have not ended
get_running_tasks(S) ==
    {Root} \cup {n \in Components \ {Root} : S.task[n].pc # "none" /\ ~Finished(S, n)}

\* component_statuses: a ComponentStatus for the parent task and for every
\* running task whose name matches component_task_re
component_statuses(S) ==
    {[task |-> n,
      alias |-> IF n = Root THEN NoAlias ELSE component_task_re_match(task_name(n)).alias,
      name |-> IF n = Root THEN qualified_name(n)
               ELSE component_task_re_match(task_name(n)).name,
      parent_task_id |-> IF n = Root THEN NoTaskId ELSE parent(n)] :
        n \in {m \in get_running_tasks(S) :
                  m = Root \/ component_task_re_match(task_name(m)).matched}}

\* the title of a status: f"{status_.alias or 'root'} ({status_.name})"
title(status_) ==
    [alias |-> IF status_.alias = NoAlias THEN <<"root">> ELSE status_.alias,
     name |-> status_.name]

\* format_status(root_status, 0): the root's title and below it, level by
\* level, the title of every status that was appended to the children of a
\* status already in the output; under is the title it is printed beneath
RECURSIVE format_status(_, _, _)
format_status(statuses, status_, under) ==
    {[title |-> title(status_), under |-> under]}
        \cup UNION {format_status(statuses, child, title(status_)) :
                       child \in {c \in statuses : c.parent_task_id = status_.task}}

NoTitle == [alias |-> << >>, name |-> << >>]

\* the text passed to logger.error, as the set of its entries
diagnostic(S) ==
    LET statuses == component_statuses(S)
        root_status == CHOOSE r \in statuses : r.parent_task_id = NoTaskId
    IN  format_status(statuses, root_status, NoTitle)

\* _component_startup_watcher after sleep(start_timeout) has returned
watcher_timeout(S) ==
    deliver_cancellation([S EXCEPT !.watcher = "fired", !.cancel_called = TRUE,
                                   !.logged = Append(@, diagnostic(S))], Components)

ApplyStart(S) ==
    /\ Apply(S.h)
    /\ closed' = S.closed
    /\ task' = S.task
    /\ status' = S.status
    /\ cancel_called' = S.cancel_called
    /\ tg_cancelled' = S.tg
    /\ startup_watcher' = S.watcher
    /\ logged' = S.logged
    /\ component' = S.component
    /\ config_keys' = S.config_keys
    /\ start_result' = S.result
    /\ closing' = S.closing
    /\ scope' = S.scope
    /\ UNCHANGED <<nadded, teardown_callbacks, invoked, finished, registered, generators,
                   config, timeout, tree, current, merged, registry>>

(***************************************************************************)
(* Actions of the startup specification.                                   *)
(***************************************************************************)
\* mutant: start_component does not look for the current context
start_component_check_skipped(ctx) == NoExc

\* try: current_context() except NoCurrentContext: raise RuntimeError
start_component_check(ctx) == IF ctx = NoCtx THEN "RuntimeError" ELSE NoExc

\* config.setdefault("type", component_class) and _init_component: "type"
\* and "components" are popped from the mapping, and every component of the
\* tree is instantiated with the children it declares
init_component(S) ==
    [S EXCEPT !.config_keys = (@ \cup {"type"}) \ {"components", "type"},
              !.component = [n \in Components |->
                  IF n \in tree
                  THEN [instantiated |-> TRUE, component_started |-> FALSE,
                        child_components |-> child_components(n),
                        declared |-> [c \in Components |->
                            IF c \in child_components(n)
                            THEN [type |-> "alias", config |-> "c1"]
                            ELSE NoDeclaration]]
                  ELSE @[n]]]

\* the call of start_component, up to the first suspension point of the
\* root's start pass
StartComponent ==
    /\ start_result = "none"
    /\ IF start_component_check(current) # NoExc
       THEN ApplyStart([StartHeap EXCEPT !.result = start_component_check(current)])
       ELSE \E S \in start_component_task(
                  init_component(
                      [StartHeap EXCEPT !.result = "running",
                                        !.watcher = IF timeout = NoTimeout THEN "none"
                                                    ELSE "sleeping"]), Root) :
                ApplyStart(S)

\* the aliases passed to add_component of n: those of the components that
\* can be its children, and the empty string
EmptyAlias == 0
AliasInputs(n) == {c \in Components : parent(c) = n} \cup {EmptyAlias}

\* the type and the keyword arguments passed to add_component
NoType == "None"
ComponentTypeArgs == {NoType, "A"}
ConfigArgs == {"c1", "c2"}

\* self._child_components[alias] = {"type": type or alias, **config}
declare(c, child_alias, type, config_) ==
    [c EXCEPT !.child_components = @ \cup {child_alias},
              !.declared[child_alias] =
                  [type |-> IF type = NoType THEN "alias" ELSE type, config |-> config_]]

\* mutant: add_component does not look at the started flag
add_component_any_time(c, child_alias, type, config_) ==
    IF child_alias = EmptyAlias THEN [component |-> c, exc |-> "TypeError"]
    ELSE IF child_alias \in c.child_components THEN [component |-> c, exc |-> "ValueError"]
    ELSE [component |-> declare(c, child_alias, type, config_), exc |-> NoExc]

\* mutant: an alias that is declared already is declared again
add_component_overwrite(c, child_alias, type, config_) ==
    IF c.component_started THEN [component |-> c, exc |-> "RuntimeError"]
    ELSE IF child_alias = EmptyAlias THEN [component |-> c, exc |-> "TypeError"]
    ELSE [component |-> declare(c, child_alias, type, config_), exc |-> NoExc]

\* Component.add_component on the component object c
add_component(c, child_alias, type, config_) ==
    IF c.component_started THEN [component |-> c, exc |-> "RuntimeError"]
    ELSE IF child_alias = EmptyAlias THEN [component |-> c, exc |-> "TypeError"]
    ELSE IF child_alias \in c.child_components THEN [component |-> c, exc |-> "ValueError"]
    ELSE [component |-> declare(c, child_alias, type, config_), exc |-> NoExc]

\* a call of add_component on a component that exists
AddComponent(n, child_alias, type, config_) ==
    /\ component[n].instantiated
    /\ component' = [component EXCEPT ![n] = add_component(@, child_alias, type, config_).component]
    /\ UNCHANGED <<ctxvars, tdvars, task, status, cancel_called, tg_cancelled,
                   startup_watcher, logged, config_keys, start_result, config, timeout,
                   tree, current, merged, registry>>

\* a spawned child task runs for the first time
RunTask(n) ==
    /\ task[n].pc = "spawned"
    /\ \E S \in start_component_task(StartHeap, n) : ApplyStart(S)

\* the sleep inside prepare() or start() ends and the method returns
Wake(n) ==
    LET S0 == [StartHeap EXCEPT !.task[n].blk = "none"]
    IN  /\ task[n].blk = "sleep"
        /\ ~task[n].doomed
        /\ \E S \in (IF task[n].pc = "prepare" THEN after_prepare(S0, n)
                     ELSE {finish(S0, n)}) :
              ApplyStart(S)

\* a notified request_resource call inside start() is resumed
Resume(n) ==
    LET out == request_resource_resume(Heap, Waiter)
        S == [StartHeap EXCEPT !.h = out.h]
    IN  /\ task[n].blk = "request"
        /\ ~task[n].doomed
        /\ waiters[Waiter].pc = "notified"
        /\ ApplyStart(IF out.exc # NoExc THEN fail(S, n, out.exc) ELSE finish(S, n))

ChildrenDone(n) ==
    /\ task[n].pc = "children"
    /\ \A c \in child_components(n) : Finished(StartHeap, c)
    /\ \E S \in children_done(StartHeap, n) : ApplyStart(S)

\* the cancellation is raised in a task suspended in prepare() or start();
\* a sleeping task takes it unless its timer had woken it
CancelDelivered(n) ==
    /\ task[n].pc \in {"prepare", "start"}
    /\ task[n].doomed \/ (task[n].blk = "sleep" /\ scope_cancelled(StartHeap, n))
    /\ ApplyStart(cancel(StartHeap, n))

WatcherTimeout ==
    /\ startup_watcher = "sleeping"
    /\ ApplyStart(watcher_timeout(StartHeap))

StartInit ==
    /\ CtxInit /\ TeardownInit /\ NotStarted
    /\ config \in Configs
    /\ timeout \in Timeouts
    /\ tree \in TreeShapes
    /\ current \in {NoCtx, 0}

StartNext ==
    \/ StartComponent
    \/ \E n \in Components : RunTask(n)
    \/ \E n \in Components : Wake(n)
    \/ \E n \in Components : Resume(n)
    \/ \E n \in Components : ChildrenDone(n)
    \/ \E n \in Components : CancelDelivered(n)
    \/ WatcherTimeout
    \/ \E n \in Components : \E child_alias \in AliasInputs(n) :
          AddComponent(n, child_alias, "A", "c2")

StartSpec == StartInit /\ [][StartNext]_vars

(***************************************************************************)
(* The declaration specification: component objects that exist and whose   *)
(* start pass has not begun, as in their __init__ and until                *)
(* _start_component reaches them, take add_component calls.                *)
(***************************************************************************)
\* component._component_started = True, the first statement of
\* _start_component
BeginStart(n) ==
    /\ ~component[n].component_started
    /\ component' = [component EXCEPT ![n].component_started = TRUE]
    /\ UNCHANGED <<ctxvars, tdvars, task, status, cancel_called, tg_cancelled,
                   startup_watcher, logged, config_keys, start_result, config, timeout,
                   tree, current, merged, registry>>

DeclareInit ==
    /\ CtxInit /\ TeardownInit
    /\ component = [n \in Components |-> [NoComponent EXCEPT !.instantiated = TRUE]]
    /\ config_keys = ConfigKeys
    /\ task = [n \in Components |-> NoTask]
    /\ status = [n \in Components |-> "none"]
    /\ cancel_called = FALSE
    /\ tg_cancelled = [n \in Components |-> FALSE]
    /\ startup_watcher = "none"
    /\ logged = << >>
    /\ start_result = "none"
    /\ merged = NoMerge
    /\ registry = NoRegistry
    /\ config = "free" /\ timeout = NoTimeout /\ tree = Components /\ current = 0

DeclareNext ==
    \/ \E n \in Components, type \in ComponentTypeArgs, config_ \in ConfigArgs :
          \E child_alias \in AliasInputs(n) : AddComponent(n, child_alias, type, config_)
    \/ \E n \in Components : BeginStart(n)

DeclareSpec == DeclareInit /\ [][DeclareNext]_vars

(***************************************************************************)
(* The merge specification: merge_config is called once, with arguments    *)
(* drawn from the mappings of the tests and of the orchestrator (the       *)
(* registry add_component fills, overridden by the "components" mapping of *)
(* the external configuration).                                            *)
(***************************************************************************)
\* items of an override mapping built from OverrideItems
MaxItems == 2

\* {a: 1, b: {x: 2, y: 3}}
ScenarioOriginal ==
    (Key("a") :> Scalar("1")) @@
    (Key("b") :> Mapping((Key("x") :> Scalar("2")) @@ (Key("y") :> Scalar("3"))))

\* {a: 1, b: {x: 2, y: 3, z: {r: [1, 2], s: [3, 4]}}}
TestOriginal ==
    (Key("a") :> Scalar("1")) @@
    (Key("b") :> Mapping((Key("x") :> Scalar("2")) @@ (Key("y") :> Scalar("3")) @@
                         (Key("z") :> Mapping((Key("r") :> List("[1, 2]")) @@
                                              (Key("s") :> List("[3, 4]"))))))

\* add_component("dummy", DummyComponent, a=5, b=2)
RegistryOriginal ==
    Key("dummy") :> Mapping((Key("type") :> Scalar("DummyComponent")) @@
                            (Key("a") :> Scalar("5")) @@ (Key("b") :> Scalar("2")))

Originals == {EmptyMapping, ScenarioOriginal, TestOriginal, RegistryOriginal}

\* the three override forms of test_merge_config
NestedDicts ==
    << <<Key("a"), Scalar("2")>>, <<Key("foo"), Scalar("6")>>,
       <<Key("b"), Mapping(<< <<Key("x"), Scalar("5")>>,
                              <<Key("z"), Mapping(<< <<Key("r"), Scalar("bar")>>,
                                                     <<Key("s"), List("[6, 7]")>> >>)>> >>)>> >>
PartNested ==
    << <<Key("a"), Scalar("2")>>, <<Key("foo"), Scalar("6")>>,
       <<<<"b", "x">>, Scalar("5")>>,
       <<<<"b", "z">>, Mapping(<< <<Key("r"), Scalar("bar")>>,
                                  <<Key("s"), List("[6, 7]")>> >>)>> >>
DottedPaths ==
    << <<Key("a"), Scalar("2")>>, <<Key("foo"), Scalar("6")>>,
       <<<<"b", "x">>, Scalar("5")>>, <<<<"b", "z", "r">>, Scalar("bar")>>,
       <<<<"b", "z", "s">>, List("[6, 7]")>> >>

OverrideItems ==
    { <<Key("a"), Scalar("2")>>,
      <<Key("a"), Mapping(<< <<Key("x"), Scalar("5")>> >>)>>,
      <<Key("foo"), List("[6, 7]")>>,
      <<Key("b"), Scalar("9")>>,
      <<Key("b"), List("[6, 7]")>>,
      <<Key("b"), Mapping(<< <<Key("x"), Scalar("5")>> >>)>>,
      <<Key("b"), Mapping(<< <<Key("x"), Mapping(<< <<Key("r"), Scalar("bar")>> >>)>> >>)>>,
      <<Key("b"), Mapping(<< <<<<"z", "r">>, Scalar("bar")>> >>)>>,
      <<<<"b", "x">>, Scalar("5")>>,
      <<<<"b", "w">>, Scalar("7")>>,
      <<<<"b", "z", "r">>, Scalar("bar")>>,
      <<<<"a", "x">>, Scalar("5")>>,
      <<Key("dummy"), Mapping(<< <<Key("a"), Scalar("1")>>, <<Key("c"), Scalar("3")>> >>)>>,
      <<<<"dummy", "a">>, Scalar("1")>> }

\* a mapping literal has each key once; its items come in the order written
Overrides ==
    {NestedDicts, PartNested, DottedPaths} \cup
    UNION {{o \in [1..len -> OverrideItems] :
               \A i, j \in 1..len : i # j => o[i][1] # o[j][1]} : len \in 0..MaxItems}

MergeConfig ==
    /\ merged.result = NoResult
    /\ merged' = [merged EXCEPT !.result = Mapping(merge_config(merged.original,
                                                                merged.overrides))]
    /\ UNCHANGED <<ctxvars, tdvars, task, status, cancel_called, tg_cancelled,
                   startup_watcher, logged, component, config_keys, start_result,
                   config, timeout, tree, current, registry>>

MergeInit ==
    /\ CtxInit /\ TeardownInit
    /\ component = [n \in Components |-> NoComponent]
    /\ config_keys = ConfigKeys
    /\ task = [n \in Components |-> NoTask]
    /\ status = [n \in Components |-> "none"]
    /\ cancel_called = FALSE
    /\ tg_cancelled = [n \in Components |-> FALSE]
    /\ startup_watcher = "none"
    /\ logged = << >>
    /\ start_result = "none"
    /\ merged \in {[original |-> original, overrides |-> overrides, result |-> NoResult] :
                      original \in Originals, overrides \in Overrides}
    /\ registry = NoRegistry
    /\ config = "free" /\ timeout = NoTimeout /\ tree = {Root} /\ current = 0

MergeNext == MergeConfig

MergeSpec == MergeInit /\ [][MergeNext]_vars

(***************************************************************************)
(* The registry specification: a root component with two children, each   *)
(* of which may declare one child of its own, started by start_component   *)
(* with no timeout and no failing component.  The aliases are texts that   *)
(* may contain a dot; the order of a component's children is the order of  *)
(* its merged child configuration.                                         *)
(***************************************************************************)
Nodes == 1..5
RootNode == 1

node_parent(n) ==
    CASE n = 2 -> 1
      [] n = 3 -> 1
      [] n = 4 -> 2
      [] n = 5 -> 3
      [] OTHER -> 0

NodeAliases == {<<"a">>, <<"b">>, <<"c">>, <<"a", ".", "b">>}
NodeSets == {Nodes, Nodes \ {4}, Nodes \ {5}}
RootOrders == {<<2, 3>>, <<3, 2>>}

\* the children of n in the order of child_components_config.items()
node_children(reg, n) ==
    IF n = RootNode THEN reg.order
    ELSE IF n = 2 /\ 4 \in reg.nodes THEN <<4>>
    ELSE IF n = 3 /\ 5 \in reg.nodes THEN <<5>>
    ELSE << >>

\* final_path = f"{path}.{alias}" if path else alias
node_final_path(path, child_alias) ==
    IF path = << >> THEN child_alias ELSE path \o <<".">> \o child_alias

\* child_components_by_alias[path] = value
Put(by_alias, path, value) ==
    [q \in DOMAIN by_alias \cup {path} |-> IF q = path THEN value ELSE by_alias[q]]

\* mutant: the dictionary of a path that already has one is kept
init_node_keep(by_alias, path) ==
    IF path \in DOMAIN by_alias THEN by_alias ELSE Put(by_alias, path, {})

\* child_components = child_components_by_alias[path] = {}
init_node(by_alias, path) == Put(by_alias, path, {})

\* _init_component(config, path, child_components_by_alias) for the
\* component n, with kids the children it still has to create
RECURSIVE init_children(_, _, _, _, _)
init_children(reg, by_alias, n, path, kids) ==
    IF kids = << >> THEN by_alias
    ELSE LET child == Head(kids)
             final_path_ == node_final_path(path, reg.aliases[child])
             by1 == init_children(reg, init_node(by_alias, final_path_), child, final_path_,
                                  node_children(reg, child))
             by2 == [by1 EXCEPT ![path] = @ \cup {<<reg.aliases[child], child>>}]
         IN  init_children(reg, by2, n, path, Tail(kids))

\* start_component: _init_component(config, "", child_components_by_alias),
\* then the call _start_component(root_component, "", ...)
NewCall(n, path, by) == [component |-> n, path |-> path, by |-> by, pc |-> "spawned"]

RegistryStart ==
    /\ registry.result = "none"
    /\ registry' = [registry EXCEPT
          !.by_alias = init_children(registry, init_node(<< >>, << >>), RootNode, << >>,
                                     node_children(registry, RootNode)),
          !.calls = <<NewCall(RootNode, << >>, 0)>>,
          !.result = "running"]
    /\ UNCHANGED <<ctxvars, tdvars, task, status, cancel_called, tg_cancelled,
                   startup_watcher, logged, component, config_keys, start_result,
                   config, timeout, tree, current, merged>>

\* child_components_by_alias.get(path)
children_of_path(reg, path) ==
    IF path \in DOMAIN reg.by_alias THEN reg.by_alias[path] ELSE {}

\* the set as a sequence, in the order of the node numbers
RECURSIVE AsSeq(_)
AsSeq(items) ==
    IF items = {} THEN << >>
    ELSE LET first == CHOOSE x \in items : \A y \in items : x[2] <= y[2]
         IN  <<first>> \o AsSeq(items \ {first})

\* the call i of _start_component runs: the ComponentContext is entered,
\* prepare() is called, and a task is started for every child found under
\* the path; without children start() is called and the call ends
RegistryRun(i) ==
    LET call == registry.calls[i]
        found == AsSeq(children_of_path(registry, call.path))
        spawned == [k \in 1..Len(found) |->
                       NewCall(found[k][2], node_final_path(call.path, found[k][1]), i)]
    IN  /\ i \in 1..Len(registry.calls)
        /\ call.pc = "spawned"
        /\ registry' = [registry EXCEPT
              !.calls = [@ EXCEPT ![i].pc = IF found = << >> THEN "done" ELSE "children"]
                        \o spawned]
        /\ UNCHANGED <<ctxvars, tdvars, task, status, cancel_called, tg_cancelled,
                       startup_watcher, logged, component, config_keys, start_result,
                       config, timeout, tree, current, merged>>

\* the task group of call i has ended: start() is called and the call ends
RegistryChildrenDone(i) ==
    /\ i \in 1..Len(registry.calls)
    /\ registry.calls[i].pc = "children"
    /\ \A j \in 1..Len(registry.calls) :
          registry.calls[j].by = i => registry.calls[j].pc = "done"
    /\ registry' = [registry EXCEPT !.calls[i].pc = "done"]
    /\ UNCHANGED <<ctxvars, tdvars, task, status, cancel_called, tg_cancelled,
                   startup_watcher, logged, component, config_keys, start_result,
                   config, timeout, tree, current, merged>>

\* the call for the root has ended: start_component returns the root
RegistryReturn ==
    /\ registry.result = "running"
    /\ registry.calls[1].pc = "done"
    /\ registry' = [registry EXCEPT !.result = "returned"]
    /\ UNCHANGED <<ctxvars, tdvars, task, status, cancel_called, tg_cancelled,
                   startup_watcher, logged, component, config_keys, start_result,
                   config, timeout, tree, current, merged>>

\* _start_component calls of one start_component run
MaxStartCalls == 8

RegistryInit ==
    /\ CtxInit /\ TeardownInit
    /\ component = [n \in Components |-> NoComponent]
    /\ config_keys = ConfigKeys
    /\ task = [n \in Components |-> NoTask]
    /\ status = [n \in Components |-> "none"]
    /\ cancel_called = FALSE
    /\ tg_cancelled = [n \in Components |-> FALSE]
    /\ startup_watcher = "none"
    /\ logged = << >>
    /\ start_result = "none"
    /\ merged = NoMerge
    /\ registry \in {[NoRegistry EXCEPT !.nodes = nodes, !.aliases = aliases, !.order = order] :
                        nodes \in NodeSets, order \in RootOrders,
                        aliases \in {a \in [Nodes \ {RootNode} -> NodeAliases] : a[2] # a[3]}}
    /\ config = "free" /\ timeout = NoTimeout /\ tree = {Root} /\ current = 0

RegistryNext ==
    \/ RegistryStart
    \/ \E i \in 1..MaxStartCalls : RegistryRun(i)
    \/ \E i \in 1..MaxStartCalls : RegistryChildrenDone(i)
    \/ RegistryReturn

RegistrySpec == RegistryInit /\ [][RegistryNext]_vars

\* a step of a start task: the scheduler runs a task that can run, a timer
\* fires, a cancellation is delivered
StartProgress ==
    \E n \in Components :
        RunTask(n) \/ Wake(n) \/ Resume(n) \/ ChildrenDone(n) \/ CancelDelivered(n)

\* the guards of StartProgress: some start task can take a step
CanProgress ==
    \E n \in Components :
        \/ task[n].pc = "spawned"
        \/ task[n].blk = "sleep"
        \/ task[n].blk = "request" /\ waiters[Waiter].pc = "notified" /\ ~task[n].doomed
        \/ task[n].pc = "children" /\ \A c \in child_components(n) : Finished(StartHeap, c)
        \/ task[n].pc \in {"prepare", "start"} /\ task[n].doomed

\* weak fairness of StartProgress, WF_vars(StartProgress), with its
\* enabling condition written out: while some start task can take a step,
\* one of them does
StartFairness == []<>(~CanProgress) \/ []<><<StartProgress>>_vars

StartFairSpec == StartSpec /\ StartFairness

\* CanProgress is the enabling condition of <<StartProgress>>_vars: a step
\* of StartProgress is taken from a state of CanProgress only, and a task
\* whose guard holds has an outcome, each of which changes the task
ProgressNeedsGuard == [][<<StartProgress>>_vars => CanProgress]_vars

GuardGivesProgress ==
    \A n \in Components :
        LET S0 == [StartHeap EXCEPT !.task[n].blk = "none"]
            outcomes ==
                IF task[n].pc = "spawned" THEN start_component_task(StartHeap, n)
                ELSE IF task[n].blk = "sleep" /\ ~task[n].doomed
                THEN (IF task[n].pc = "prepare" THEN after_prepare(S0, n)
                      ELSE {finish(S0, n)})
                ELSE IF task[n].blk = "request" /\ waiters[Waiter].pc = "notified"
                        /\ ~task[n].doomed
                THEN {finish([StartHeap EXCEPT !.h = request_resource_resume(Heap, Waiter).h],
                             n)}
                ELSE IF task[n].pc = "children"
                        /\ \A c \in child_components(n) : Finished(StartHeap, c)
                THEN children_done(StartHeap, n)
                ELSE IF task[n].pc \in {"prepare", "start"}
                        /\ (task[n].doomed \/ task[n].blk = "sleep")
                THEN {cancel(StartHeap, n)}
                ELSE {}
        IN  /\ \A S \in outcomes : S.task[n] # task[n]
            /\ CanProgress => \E m \in Components :
                  \/ task[m].pc = "spawned" /\ start_component_task(StartHeap, m) # {}
                  \/ task[m].blk = "sleep"
                  \/ task[m].blk = "request" /\ waiters[Waiter].pc = "notified"
                        /\ ~task[m].doomed
                  \/ /\ task[m].pc = "children"
                     /\ \A c \in child_components(m) : Finished(StartHeap, c)
                     /\ children_done(StartHeap, m) # {}
                  \/ task[m].pc \in {"prepare", "start"} /\ task[m].doomed

(***************************************************************************)
(* The component teardown specification: the components of a started tree  *)
(* register teardown callbacks; the contexts of the components are left    *)
(* and the context around the tree is closed.                              *)
(***************************************************************************)
ComponentAddTeardownCallback(n, pass_exception) ==
    LET callback == [id |-> NumCallbacks + 1, pass_exception |-> pass_exception]
        tc == ComponentContext_add_teardown_callback(teardown_callbacks, n, callback)
    IN  /\ NumCallbacks < MaxCallbacks
        /\ teardown_callbacks' = tc
        /\ registered' = [c \in Contexts |->
                             IF tc[c] # teardown_callbacks[c]
                             THEN Append(registered[c], callback.id) ELSE registered[c]]
        /\ UNCHANGED <<ctxvars, closing, invoked, finished, scope, generators, startvars>>

ComponentTeardownInit ==
    /\ CtxInit /\ TeardownInit /\ NotStarted
    /\ config = "free" /\ timeout = NoTimeout /\ tree = Components /\ current = 0

\* the contexts that are closed: the one around the tree, a child's and a
\* grandchild's
ComponentTeardownCtxs == {0, 2, 4}

ComponentTeardownNext ==
    \/ \E n \in Components, pass_exception \in BOOLEAN :
            ComponentAddTeardownCallback(n, pass_exception)
    \/ \E c \in ComponentTeardownCtxs : Close(c, NoExc)
    \/ \E c \in ComponentTeardownCtxs, result \in Outcomes \cup {"awaitable"} :
            CloseCallback(c, result)
    \/ \E c \in ComponentTeardownCtxs, outcome \in Outcomes : CloseAwaited(c, outcome)

ComponentTeardownSpec == ComponentTeardownInit /\ [][ComponentTeardownNext]_vars

(***************************************************************************)
(* Claims about resources and lookups (Spec).  A claim about what a call   *)
(* returns is stated for the call made in the state at hand: the method    *)
(* applied to Heap.                                                        *)
(***************************************************************************)
AddArguments ==
    [name : WordNames, context_attr : AttrNames \cup {NoAttr}, types : SUBSET Types]

\* C1: a successful add_resource(value, name, types) on c makes
\* c.get_resource(t, name) return that value at once, for every type t it was
\* registered under and without another state change (part 1); a registered
\* resource is what get_resource returns for its key (part 2) and it is
\* never replaced or removed afterwards (part 3).
C1_AddedIsReturned ==
    \A c \in Contexts :
        /\ \A a \in AddArguments :
              LET out == add_resource(Heap, c, NewValue, a.name, a.context_attr, a.types)
              IN  out.exc = NoExc =>
                    \A t \in add_resource_types(NewValue, a.types) :
                        get_resource(out.h, c, t, a.name) = Return(out.h, NewValue)
        /\ \A key \in Keys :
              resources[c][key] # NoEntry =>
                  get_resource(Heap, c, key[1], key[2])
                      = Return(Heap, resources[c][key].value_or_factory)

C1_AddedStaysReturned ==
    /\ []C1_AddedIsReturned
    /\ [][\A c \in Contexts, key \in Keys :
             resources[c][key] # NoEntry => resources'[c][key] = resources[c][key]]_vars

\* the first object added is registered under both types on a context, and
\* a second registration has been made since
C1_Witness ==
    \E c \in Contexts :
        /\ nadded = 2
        /\ resources[c][<<"T1", "default">>].value_or_factory = UserValue(1)
        /\ resources[c][<<"T2", "default">>].value_or_factory = UserValue(1)

\* the node of c's chain nearest to c that has an entry for key in table
Nearest(table, c, key) ==
    CHOOSE d \in ChainSet(c) :
        /\ table[d][key] # NoEntry
        /\ \A e \in ChainSet(c) : table[e][key] # NoEntry => e \in ChainSet(d)

InChain(table, c, key) == \E d \in ChainSet(c) : table[d][key] # NoEntry

\* C2: get_resource(type, name) on c returns (1) the resource stored on c;
\* else (2) the value materialized on c from the factory of the nearest chain
\* node that has a matching factory; else (3) the resource of the nearest
\* chain node that has a matching resource; else None.
C2_Precedence ==
    \A c \in Contexts, key \in Keys :
        LET out == get_resource(Heap, c, key[1], key[2])
        IN  IF resources[c][key] # NoEntry
            THEN out = Return(Heap, resources[c][key].value_or_factory)
            ELSE IF InChain(resource_factories, c, key)
            THEN LET f == resource_factories[Nearest(resource_factories, c, key)][key]
                 IN  /\ out.exc = NoExc
                     /\ out.ret = GeneratedValue(f.value_or_factory.fac, c,
                                                 calls[f.value_or_factory.fac][c] + 1)
                     /\ out.h.res[c][key].value_or_factory = out.ret
            ELSE IF InChain(resources, c, key)
            THEN out = Return(Heap, resources[Nearest(resources, c, key)][key].value_or_factory)
            ELSE out = Return(Heap, NoneValue)

\* C6: on a closed context add_resource, add_resource_factory, get_resource,
\* require_resource and request_resource fail with a state error and leave
\* the tables unchanged.
C6_ClosedRejects ==
    \A c \in Contexts :
        closed[c] =>
            /\ add_resource(Heap, c, NewValue, "default", NoAttr, {}) = Raise(Heap, "RuntimeError")
            /\ add_resource_factory(Heap, c, NewFactoryFn, {"T1"}, "default", NoAttr)
                   = Raise(Heap, "RuntimeError")
            /\ \A key \in Keys :
                  /\ get_resource(Heap, c, key[1], key[2]) = Raise(Heap, "RuntimeError")
                  /\ require_resource(Heap, c, key[1], key[2]) = Raise(Heap, "RuntimeError")

\* C12: where a factory for (type, name) is on the chain of c, get_resource
\* on c succeeds; it invokes the factory with c when c holds no resource for
\* the key, and that is the only invocation of the factory with c ever made;
\* a second get_resource on c for the key returns the same value and changes
\* nothing (the factory is not invoked again).  Values generated for two
\* contexts are two objects.
C12_OncePerContext ==
    \A c \in Contexts, key \in Keys :
        InChain(resource_factories, c, key) =>
            LET f == FirstInChain(resource_factories, c, key).value_or_factory.fac
                first == get_resource(Heap, c, key[1], key[2])
                second == get_resource(first.h, c, key[1], key[2])
            IN  /\ first.exc = NoExc
                /\ resources[c][key] = NoEntry =>
                      /\ first.ret = GeneratedValue(f, c, 1)
                      /\ first.h.calls[f][c] = 1
                      /\ \A d \in Contexts \ {c} :
                            resources[d][key].value_or_factory # first.ret
                /\ second = Return(first.h, first.ret)

\* what a lookup on c that invokes the factory registration fc may change
MaterializeFrame(c, fc, out) ==
    /\ out.h.fac = resource_factories
    /\ out.h.fba = resource_factories_by_context_attr
    /\ \A d \in Contexts \ {c} :
          out.h.res[d] = resources[d] /\ out.h.att[d] = attributes[d]
    /\ out.exc # NoExc => out.h.res = resources /\ out.h.att = attributes
    /\ out.exc = NoExc =>
          /\ out.ret.kind = "generated" /\ out.ret.ctx = c
          /\ \A k \in Keys :
                out.h.res[c][k] =
                    IF k[1] \in fc.types /\ k[2] = fc.name
                    THEN ResourceContainer(out.ret, fc.types, fc.name, fc.context_attr, FALSE)
                    ELSE resources[c][k]
          /\ \A a \in AttrNames :
                out.h.att[c][a] = IF a = fc.context_attr THEN out.ret ELSE attributes[c][a]

\* C13: a lookup on c that invokes a factory (get_resource for a key c holds
\* no resource for, or access to a context attribute c does not have) leaves
\* the factory tables of every context and the resources and attributes of
\* every other context unchanged; the value it returns is stored on c alone,
\* as a plain resource under the factory's name, all of the factory's types
\* and its context attribute, and a lookup that fails stores nothing.
C13_MaterializeFrame ==
    \A c \in Contexts :
        /\ \A key \in Keys :
              (resources[c][key] = NoEntry /\ InChain(resource_factories, c, key)) =>
                  MaterializeFrame(c, FirstInChain(resource_factories, c, key),
                                   get_resource(Heap, c, key[1], key[2]))
        /\ \A a \in AttrNames :
              (~hasattr(Heap, c, a) /\ InChain(resource_factories_by_context_attr, c, a)) =>
                  MaterializeFrame(c, FirstInChain(resource_factories_by_context_attr, c, a),
                                   getattr(Heap, c, a))

\* a factory declared on the parent with two types and a context attribute
\* has been materialized on the child
C13_Witness ==
    \E c \in Contexts \ {0} :
        /\ resource_factories[parent(c)][<<"T1", "x">>].types = {"T1", "T2"}
        /\ resource_factories[parent(c)][<<"T1", "x">>].context_attr = "attr"
        /\ resources[c][<<"T1", "x">>].value_or_factory.kind = "generated"
        /\ resources[c][<<"T2", "x">>] = resources[c][<<"T1", "x">>]
        /\ attributes[c]["attr"] = resources[c][<<"T1", "x">>].value_or_factory
        /\ resources[parent(c)][<<"T1", "x">>] = NoEntry

\* C20: add_resource on c with a value and a valid name fails with
\* ResourceConflict when one of its (type, name) pairs is a resource of c
\* itself, and add_resource_factory with a valid name, types and callback
\* when one of its pairs is a factory of c itself; whether either call
\* raises ResourceConflict depends on the tables and attributes of c alone
\* (no pair on another context matters), and without a context attribute
\* the pairs of c are the only cause.
C20_ConflictIsLocal ==
    \A c \in Contexts, name \in WordNames, types \in TypeSets,
       context_attr \in AttrNames \cup {NoAttr} :
        LET added == add_resource(Heap, c, UserValue(0), name, context_attr, types)
            fadded == add_resource_factory(Heap, c, 1, types, name, context_attr)
            taken == \E t \in types : resources[c][<<t, name>>] # NoEntry
            ftaken == \E t \in types : resource_factories[c][<<t, name>>] # NoEntry
        IN  /\ taken => added = Raise(Heap, "ResourceConflict")
            /\ ftaken => fadded = Raise(Heap, "ResourceConflict")
            /\ added.exc \in {NoExc, "ResourceConflict"}
            /\ fadded.exc \in {NoExc, "ResourceConflict"}
            /\ added.exc = "ResourceConflict" =>
                  taken \/ (context_attr # NoAttr /\ hasattr(Heap, c, context_attr))
            /\ fadded.exc = "ResourceConflict" =>
                  \/ ftaken
                  \/ /\ context_attr # NoAttr
                     /\ resource_factories_by_context_attr[c][context_attr] # NoEntry

\* a context and its child both hold a resource (T1, "x"): adding the pair
\* once more fails on the child, adding it on the grandchild succeeds, and
\* so does adding a factory for the pair on the child
C20_Witness ==
    /\ resources[0][<<"T1", "x">>] # NoEntry
    /\ resources[1][<<"T1", "x">>] # NoEntry
    /\ resources[0][<<"T1", "x">>] # resources[1][<<"T1", "x">>]
    /\ add_resource(Heap, 1, UserValue(0), "x", NoAttr, {"T1"}).exc = "ResourceConflict"
    /\ add_resource(Heap, 2, UserValue(0), "x", NoAttr, {"T1"}).exc = NoExc
    /\ add_resource_factory(Heap, 1, 1, {"T1"}, "x", NoAttr).exc = NoExc

\* C21: once a context attribute name is bound on c, as the attribute of a
\* resource or as the context attribute of a factory, every add_resource and
\* every add_resource_factory on c with that context attribute fails with
\* ResourceConflict.
C21_AttrBoundOnce ==
    \A c \in Contexts, a \in AttrNames :
        (hasattr(Heap, c, a) \/ resource_factories_by_context_attr[c][a] # NoEntry) =>
            \A name \in WordNames, types \in TypeSets :
                /\ add_resource(Heap, c, UserValue(0), name, a, types)
                       = Raise(Heap, "ResourceConflict")
                /\ add_resource_factory(Heap, c, 1, types, name, a)
                       = Raise(Heap, "ResourceConflict")

HasAttr(c, a) == hasattr(Heap, c, a)

NearestWithAttr(c, a) ==
    CHOOSE d \in ChainSet(c) :
        HasAttr(d, a) /\ \A e \in ChainSet(c) : HasAttr(e, a) => e \in ChainSet(d)

\* C22: access to attribute a of c gives a value that a factory bound to a
\* on a node of c's chain generated for c, and c then has it as its
\* attribute, whenever a factory is bound to a on the chain, also when an
\* attribute a is set on a node of the chain; without such a factory it
\* gives the attribute a of the nearest node that has one, and it fails
\* with AttributeError when there is neither.
C22_FactoryAttrFirst ==
    \A c \in Contexts, a \in AttrNames :
        LET out == getattr(Heap, c, a)
        IN  IF InChain(resource_factories_by_context_attr, c, a)
            THEN /\ out.exc = NoExc
                 /\ out.ret.kind = "generated"
                 /\ \E d \in ChainSet(c) :
                        /\ resource_factories_by_context_attr[d][a] # NoEntry
                        /\ resource_factories_by_context_attr[d][a].value_or_factory.fac
                               = out.ret.fac
                 /\ out.ret.ctx = c
                 /\ out.h.att[c][a] = out.ret
            ELSE IF \E d \in ChainSet(c) : HasAttr(d, a)
            THEN out = Return(Heap, attributes[NearestWithAttr(c, a)][a])
            ELSE out = Raise(Heap, "AttributeError")

\* C35: in every reachable state and on every context, the entry of the
\* resource table under (t, n) is a container that is no factory, has the
\* name n and has t among its types; the entry of the factory table under
\* (t, n) is a factory container with the name n and t among its types; and
\* a container is the entry under every pair of one of its types and its
\* name as soon as it is the entry under one of them.
C35_TablesWellFormed ==
    \A c \in Contexts, key \in Keys :
        /\ resources[c][key] # NoEntry =>
              LET resource == resources[c][key]
              IN  /\ ~resource.is_factory
                  /\ resource.name = key[2]
                  /\ key[1] \in resource.types
                  /\ \A type_ \in resource.types :
                        resources[c][<<type_, resource.name>>] = resource
        /\ resource_factories[c][key] # NoEntry =>
              LET resource == resource_factories[c][key]
              IN  /\ resource.is_factory
                  /\ resource.name = key[2]
                  /\ key[1] \in resource.types
                  /\ \A type_ \in resource.types :
                        resource_factories[c][<<type_, resource.name>>] = resource

\* a context holds a resource added under two types, a resource generated
\* by a factory of two types, and the factory
C35_Witness ==
    \E c \in Contexts, d \in Contexts :
        /\ resources[c][<<"T1", "x">>] # NoEntry
        /\ resources[c][<<"T1", "x">>].types = Types
        /\ resources[c][<<"T1", "x">>].value_or_factory.kind = "user"
        /\ resource_factories[d][<<"T2", "default">>] # NoEntry
        /\ resource_factories[d][<<"T2", "default">>].types = Types
        /\ resources[c][<<"T2", "default">>] # NoEntry
        /\ resources[c][<<"T2", "default">>].value_or_factory.kind = "generated"

\* C36: get_resource(type, name) on an open context never raises: it returns
\* a value or None, also when the factory it materializes is registered for
\* several types and the context already holds a resource under another of
\* the factory's (type, name) pairs or under its context attribute.
C36_GetResourceTotal ==
    \A c \in Contexts, type \in Types, name \in WordNames :
        ~closed[c] => get_resource(Heap, c, type, name).exc = NoExc

(***************************************************************************)
(* Claims about request_resource (RequestSpec).                            *)
(***************************************************************************)
WaiterKey(w) == <<w.type, w.name>>

Reachable(w) ==
    InChain(resources, w.ctx, WaiterKey(w)) \/ InChain(resource_factories, w.ctx, WaiterKey(w))

\* C3: a task whose request_resource finds no matching resource or factory
\* on its chain is suspended; no task stays suspended once a matching
\* resource or factory has been added on its chain; and a task that was
\* suspended and resumed has returned a value registered for its
\* (type, name) on its chain.
C3_NoLostWakeup ==
    /\ [](\A t \in Tasks :
            /\ waiters[t].pc = "waiting" => ~Reachable(waiters[t])
            /\ waiters[t].pc = "done" /\ waiters[t].waited =>
                  /\ waiters[t].exc = NoExc
                  /\ \E d \in ChainSet(waiters[t].ctx) :
                        resources[d][WaiterKey(waiters[t])].value_or_factory = waiters[t].ret
                  /\ waiters[t].ret # NoneValue)
    /\ [][\A t \in Tasks :
            waiters[t].pc = "idle" /\ waiters'[t].pc # "idle" =>
                (waiters'[t].pc = "waiting" <=> ~Reachable(waiters'[t]))]_vars

\* C23: request_resource never raises: a call on any context, for any type
\* and name, either returns a value that is not None or leaves the calling
\* task suspended, and a task that is resumed returns a value that is not
\* None.
C23_RequestNeverFails ==
    /\ \A t \in Tasks, c \in WaiterCtxs, type \in Types, name \in WordNames :
            LET out == request_resource(Heap, t, c, type, name)
            IN  /\ out.exc = NoExc
                /\ out.ret # NoneValue \/ out.h.wt[t].pc = "waiting"
    /\ \A t \in Tasks :
            /\ waiters[t].pc = "notified" =>
                  LET out == request_resource_resume(Heap, t)
                  IN  out.exc = NoExc /\ out.ret # NoneValue
            /\ waiters[t].pc = "done" =>
                  waiters[t].exc = NoExc /\ waiters[t].ret # NoneValue

\* C34: an add_resource or add_resource_factory call that raises (None
\* value, malformed name, empty types, coroutine factory, attribute conflict,
\* conflict on any one of the requested types) leaves the resource table,
\* the factory tables and the attributes of every context as they were and
\* notifies no waiting task; none of the requested types is registered.
C34_FailedAddChangesNothing ==
    \A c \in RequestCtxs, name \in WordNames \cup BadNames,
       context_attr \in AttrNames \cup {NoAttr}, types \in SUBSET Types :
        /\ \A value \in {NewValue, NoneValue} :
              LET out == add_resource(Heap, c, value, name, context_attr, types)
              IN  out.exc # NoExc => out.h = Heap
        /\ \A factory_callback \in {NewFactoryFn, CoroutineFn} :
              LET out == add_resource_factory(Heap, c, factory_callback, types, name,
                                              context_attr)
              IN  out.exc # NoExc => out.h = Heap

\* a task waits for ("T2", "x") on a context that holds ("T1", "x") as a
\* resource and as a factory: adding under both types fails on "T1"
C34_Witness ==
    \E t \in Tasks :
        LET c == waiters[t].ctx
        IN  /\ waiters[t].pc = "waiting" /\ waiters[t].type = "T2" /\ waiters[t].name = "x"
            /\ resources[c][<<"T1", "x">>] # NoEntry
            /\ resources[c][<<"T2", "x">>] = NoEntry
            /\ resource_factories[c][<<"T1", "x">>] # NoEntry
            /\ resource_factories[c][<<"T2", "x">>] = NoEntry
            /\ add_resource(Heap, c, NewValue, "x", NoAttr, Types).exc = "ResourceConflict"
            /\ add_resource_factory(Heap, c, NewFactoryFn, Types, "x", NoAttr).exc
                   = "ResourceConflict"

\* C37: a task suspended in request_resource(type, name) on C is resumed by
\* a step exactly when the step adds a resource or a factory under
\* (type, name) on C or an ancestor of C; every other step (an add on a
\* descendant, a sibling or an unrelated context, an add with another name or
\* type) leaves it suspended as it was; and the resumed call ends as
\* get_resource(type, name) on C ends at that moment, with a value that is
\* not None when it returns.
C37_OnlyMatchingAddResumes ==
    /\ [][\A t \in Tasks :
            waiters[t].pc = "waiting" =>
                LET w == waiters[t]
                    added == \E c \in ChainSet(w.ctx) :
                                \/ resources'[c][WaiterKey(w)] # resources[c][WaiterKey(w)]
                                \/ resource_factories'[c][WaiterKey(w)]
                                       # resource_factories[c][WaiterKey(w)]
                IN  /\ added => waiters'[t] = [w EXCEPT !.pc = "notified"]
                    /\ ~added => waiters'[t] = w]_vars
    /\ [](\A t \in Tasks :
            /\ waiters[t].pc = "notified" =>
                  LET w == waiters[t]
                      out == request_resource_resume(Heap, t)
                      got == get_resource(Heap, w.ctx, w.type, w.name)
                  IN  /\ out.exc = got.exc /\ out.ret = got.ret
                      /\ out.h.wt[t].pc = "done"
                      /\ got.exc = NoExc => got.ret # NoneValue
            /\ (waiters[t].pc = "done" /\ waiters[t].waited /\ waiters[t].exc = NoExc) =>
                  waiters[t].ret # NoneValue)

\* a task that waited on context 2 has returned a value although its
\* sibling context 3 holds a resource under the requested type and name
C37_Witness ==
    \E t \in Tasks :
        /\ waiters[t].pc = "done" /\ waiters[t].waited /\ waiters[t].exc = NoExc
        /\ waiters[t].ctx = 2
        /\ resources[3][WaiterKey(waiters[t])] # NoEntry
        /\ waiters[t].ret # resources[3][WaiterKey(waiters[t])].value_or_factory

(***************************************************************************)
(* Claims about component startup (StartSpec, StartFairSpec).  prepare()   *)
(* of n has been called when status[n] is not "none" and has returned when *)
(* status[n] is "starting"; start() of n has been called when              *)
(* task[n].start_called holds and has returned when task[n].pc is "done".  *)
(***************************************************************************)
PrepareBegins(n) == status[n] = "none" /\ status'[n] # "none"
StartBegins(n) == ~task[n].start_called /\ task'[n].start_called

\* C4: prepare() of a component has returned before prepare() or start() of
\* any of its descendants begins, and its start() begins only after
\* prepare() and start() of every component below it have returned.
C4_StartOrder ==
    [][\A n \in Components :
          /\ \A d \in Descendants(n) :
                PrepareBegins(d) \/ StartBegins(d) => status[n] = "starting"
          /\ StartBegins(n) =>
                \A d \in Descendants(n) \cap tree :
                    status[d] = "starting" /\ task[d].pc = "done"]_vars

\* the whole tree of four components has started and start_component returned
C4_Witness ==
    /\ tree = Components
    /\ start_result = "returned"
    /\ \A n \in Components : task[n].start_called /\ task[n].pc = "done"

\* C5: with the first child adding a resource in start() and the second
\* child requesting it under the published name, the second child's start()
\* never fails and returns only with that resource; it is not left waiting
\* once the first child's start() has been called; and unless the watchdog
\* cancels the startup, start_component returns.
C5_Safety ==
    (config = "publish" /\ {2, 3} \subseteq tree) =>
        /\ task[3].pc # "failed"
        /\ task[3].pc = "done" =>
              /\ waiters[Waiter].pc = "done"
              /\ waiters[Waiter].exc = NoExc
              /\ waiters[Waiter].ret = UserValue(2)
        /\ (task[3].blk = "request" /\ waiters[Waiter].pc = "waiting") =>
              ~task[2].start_called
        /\ start_result = "returned" => task[3].pc = "done"

C5_PublishedIsReceived ==
    /\ []C5_Safety
    /\ (config = "publish" /\ start_result = "running")
          ~> (start_result = "returned" \/ cancel_called)

\* the second child waited before the first child published, and received it
C5_Witness ==
    /\ config = "publish"
    /\ start_result = "returned"
    /\ waiters[Waiter].waited
    /\ waiters[Waiter].ret = UserValue(2)

C10_Delivered ==
    /\ startup_watcher = "fired" => cancel_called
    /\ (cancel_called /\ start_result = "running") =>
          \A n \in Components : NotWoken(StartHeap, n) => task[n].doomed

C14_Status ==
    \A n \in Components :
        /\ status[n] \in {"none", "preparing", "starting"}
        /\ status[n] = "none" <=> task[n].pc \in {"none", "spawned"}
        /\ task[n].pc = "prepare" => status[n] = "preparing"
        /\ (task[n].pc = "failed" /\ ~task[n].start_called
                /\ task[n].exc # "ExceptionGroup") => status[n] = "preparing"
        /\ (task[n].pc \in {"children", "start", "done"} \/ task[n].start_called) =>
              status[n] = "starting"
        /\ \A c \in child_components(n) : task[c].pc # "none" => status[n] = "starting"

C14_StatusOneWay ==
    /\ []C14_Status
    /\ [][\A n \in Components :
            /\ status[n] = "starting" => status'[n] = "starting"
            /\ status[n] = "preparing" => status'[n] \in {"preparing", "starting"}
            /\ (status[n] = "preparing" /\ status'[n] = "starting") =>
                  /\ task[n].pc = "prepare" /\ task'[n].pc # "prepare"
                  /\ \A c \in child_components(n) : task[c].pc = "none"]_vars

\* a child is "starting" with its own child task spawned while prepare() of
\* its sibling has failed
C14_Witness ==
    /\ status[2] = "starting" /\ task[4].pc = "spawned" /\ status[4] = "none"
    /\ task[3].pc = "failed" /\ ~task[3].start_called /\ status[3] = "preparing"

\* the names a component passes to add_resource
AddNames == {NoName, "default", "x"}

StoredAs(h, c, value, name) ==
    \A k \in Keys :
        h.res[c][k] = IF k = <<"T1", name>>
                      THEN ResourceContainer(value, {"T1"}, name, NoAttr, FALSE)
                      ELSE resources[c][k]

\* C15: add_resource on the context of a component that is "starting"
\* stores the resource on that context (under "default" when no name is
\* given) and on its direct parent context, under the given name or else
\* the alias-derived default name of the component, and changes no other
\* context; a call that fails changes nothing apart from the component's own
\* context.  The resources the components of a run have added are found on
\* the component's own context and its direct parent only.
C15_OneLevelUp ==
    /\ \A n \in tree, name \in AddNames :
          status[n] = "starting" =>
              LET out == ComponentContext_add_resource(StartHeap, n, UserValue(0), name, {})
              IN  /\ \A d \in Contexts \ {n, parent(n)} : out.h.res[d] = resources[d]
                  /\ out.exc = NoExc =>
                        /\ StoredAs(out.h, n, UserValue(0),
                                    IF name = NoName THEN "default" ELSE name)
                        /\ StoredAs(out.h, parent(n), UserValue(0),
                                    IF name = NoName THEN default_resource_name(n)
                                    ELSE name)
                  /\ out.exc # NoExc => out.h.res[parent(n)] = resources[parent(n)]
    /\ \A n \in Components, d \in Contexts, k \in Keys :
          resources[d][k].value_or_factory = UserValue(n) =>
              \/ d = n /\ k[2] = "default"
              \/ d = parent(n) /\ k[2] = default_resource_name(n) /\ task[n].start_called

\* the first child (alias "a/x") and the second child have added a resource
\* in start(): each is on its own context under "default" and on the root
\* component's context, under "x" for the first child; the context above
\* the root component holds neither
C15_Witness ==
    /\ resources[2][<<"T1", "default">>].value_or_factory = UserValue(2)
    /\ resources[1][<<"T1", "x">>].value_or_factory = UserValue(2)
    /\ resources[3][<<"T1", "default">>].value_or_factory = UserValue(3)
    /\ resources[1][<<"T1", "default">>].value_or_factory = UserValue(3)
    /\ \A k \in Keys : resources[0][k] = NoEntry

FactoryStoredAs(h, c, factory_callback, type, name) ==
    \A k \in Keys :
        h.fac[c][k] = IF k = <<type, name>>
                      THEN ResourceContainer(FactoryValue(factory_callback), {type}, name,
                                             NoAttr, TRUE)
                      ELSE resource_factories[c][k]

\* C16: add_resource_factory on the context of a component registers the
\* factory as add_resource stores a resource: while "preparing" on the
\* component's own context only; while "starting" on the own context (under
\* "default" when no name is given) and on the direct parent context, under
\* the given name or else the alias-derived default name of the component,
\* and on no other context.
C16_FactoryOneLevelUp ==
    \A n \in tree, name \in AddNames, type \in Types :
        LET out == ComponentContext_add_resource_factory(StartHeap, n, ComponentFactoryFn,
                                                         name, {type})
        IN  /\ status[n] = "preparing" =>
                  \A d \in Contexts \ {n} : out.h.fac[d] = resource_factories[d]
            /\ status[n] = "starting" =>
                  /\ \A d \in Contexts \ {n, parent(n)} :
                        out.h.fac[d] = resource_factories[d]
                  /\ out.exc = NoExc =>
                        /\ FactoryStoredAs(out.h, n, ComponentFactoryFn, type,
                                           IF name = NoName THEN "default" ELSE name)
                        /\ FactoryStoredAs(out.h, parent(n), ComponentFactoryFn, type,
                                           IF name = NoName THEN default_resource_name(n)
                                           ELSE name)

\* what a lookup returns, whatever it stores
Outcome(out) == <<out.exc, out.ret>>

C18_PreparingNameIsDefault ==
    /\ \A n \in tree, name \in AddNames, type \in Types :
          status[n] = "preparing" =>
              LET out == ComponentContext_add_resource(StartHeap, n, UserValue(0), name, {type})
                  fout == ComponentContext_add_resource_factory(
                              StartHeap, n, ComponentFactoryFn, name, {type})
              IN  /\ IF resources[n][<<type, "default">>] # NoEntry
                     THEN out.exc = "ResourceConflict"
                     ELSE /\ out.exc = NoExc
                          /\ \A k \in Keys :
                                out.h.res[n][k] =
                                    IF k = <<type, "default">>
                                    THEN ResourceContainer(UserValue(0), {type}, "default",
                                                           NoAttr, FALSE)
                                    ELSE resources[n][k]
                  /\ IF resource_factories[n][<<type, "default">>] # NoEntry
                     THEN fout.exc = "ResourceConflict"
                     ELSE /\ fout.exc = NoExc
                          /\ FactoryStoredAs(fout.h, n, ComponentFactoryFn, type, "default")
    /\ \A n \in Components, k \in Keys :
          (~task[n].start_called /\ resources[n][k].value_or_factory = UserValue(n)) =>
              k[2] = "default"

\* the child configured under the alias "a/x" added a resource in prepare()
\* and is waiting for its own child: the resource is named "default"
C18_Witness ==
    /\ alias(2).tail = "x"
    /\ task[2].pc = "children" /\ ~task[2].start_called
    /\ resources[2][<<"T1", "default">>].value_or_factory = UserValue(2)
    /\ resources[2][<<"T1", "x">>] = NoEntry

Ancestors(n) == (ChainSet(n) \ {n}) \cap Components

\* C11: when prepare() or start() of a component has failed, the task group
\* it runs in is cancelled and the cancellation is delivered to every start
\* task of that group that is suspended and not woken, whose only step is
\* then to end cancelled or with the error of a child; start() is not called
\* on any ancestor, every ancestor's start pass ends with the error,
\* start_component does not return the root, and it ends raising the error.
C11_Safety ==
    \A n \in tree :
        task[n].pc = "failed" =>
            /\ n # Root =>
                  /\ tg_cancelled[parent(n)]
                  /\ \A m \in Descendants(parent(n)) :
                        NotWoken(StartHeap, m) => task[m].doomed
            /\ \A a \in Ancestors(n) :
                  /\ ~task[a].start_called
                  /\ Finished(StartHeap, a) => task[a].pc = "failed"
            /\ start_result \in {"running", "raised"}

C25_ScopeClosedOnce ==
    /\ [](\A n \in Components :
            /\ scope[n].state = "none" <=> status[n] = "none"
            /\ scope[n].state = "exited" <=> Finished(StartHeap, n)
            /\ scope[n].state # "exited" => ~closed[n] /\ closing[n].entries = 0
            /\ scope[n].state = "exited" =>
                  /\ closed[n]
                  /\ closing[n].entries = 1 /\ ~closing[n].rejected
                  /\ closing[n].pc = "returned" /\ teardown_callbacks[n] = << >>
                  /\ closing[n].exception = scope[n].exc_val
                  /\ task[n].pc = "done" <=> scope[n].exc_val = NoExc
                  /\ task[n].pc = "cancelled" <=> scope[n].exc_val = "CancelledError"
                  /\ task[n].pc = "failed" => scope[n].exc_val = task[n].exc)
    /\ [][\A n \in Components :
            /\ closing'[n] # closing[n] =>
                  scope[n].state # "exited" /\ scope'[n].state = "exited"
            /\ closed[n] => closed'[n]]_vars

C25_Witness ==
    /\ scope[4].state = "exited" /\ scope[4].exc_val = NoExc /\ closed[4]
    /\ scope[2].state = "exited" /\ scope[2].exc_val = "Error" /\ closed[2]
    /\ scope[3].state = "exited" /\ scope[3].exc_val = "CancelledError" /\ closed[3]
    /\ scope[Root].state = "exited" /\ scope[Root].exc_val = "ExceptionGroup" /\ closed[Root]

\* C26: when the start pass of the root ends with start() returned and the
\* watcher has not fired, start_component returns the root; once it has
\* returned the watcher is cancelled (or was never started), and from then
\* on the watcher never fires, the startup scope is never cancelled and
\* the result stands.  Without a timeout no watcher is ever started, the
\* startup scope is never cancelled and start_component never raises
\* TimeoutError.
C26_NoLateTimeout ==
    /\ [](/\ (task[Root].pc = "done" /\ ~cancel_called) => start_result = "returned"
          /\ start_result = "returned" =>
                /\ task[Root].pc = "done" /\ ~cancel_called
                /\ startup_watcher = (IF timeout = NoTimeout THEN "none" ELSE "cancelled")
          /\ timeout = NoTimeout =>
                /\ startup_watcher = "none"
                /\ ~cancel_called
                /\ start_result # "TimeoutError")
    /\ [][start_result = "returned" =>
            UNCHANGED <<start_result, startup_watcher, cancel_called>>]_vars

C26_Witness ==
    /\ tree = Components
    /\ start_result = "returned"
    /\ startup_watcher = "cancelled"
    /\ \A n \in Components : task[n].pc = "done"

\* the entry a component has in a diagnostic that lists it: its alias path
\* (root for the root) and class, beneath the entry of its parent
PathTitle(n) ==
    [alias |-> IF n = Root THEN <<"root">> ELSE final_path(n), name |-> qualified_name(n)]

DiagnosticEntry(n) ==
    [title |-> PathTitle(n), under |-> IF n = Root THEN NoTitle ELSE PathTitle(parent(n))]

StillStarting(n) == task[n].pc # "none" /\ ~Finished(StartHeap, n)

\* C27: the watcher logs at most one diagnostic, in the step in which it
\* fires; its entries are the entry of the root and the entries of exactly
\* the components whose start tasks have begun and not ended at that
\* moment, each with its alias path and beneath the entry of its parent.
C27_DiagnosticComplete ==
    /\ [](Len(logged) = (IF startup_watcher = "fired" THEN 1 ELSE 0))
    /\ [][(startup_watcher = "sleeping" /\ startup_watcher' = "fired") =>
            logged' = <<{DiagnosticEntry(n) :
                           n \in {Root} \cup {m \in Components : StillStarting(m)}}>>]_vars

FailedChildren(n) == {c \in child_components(n) : task[c].pc = "failed"}

\* C28: the exception that ends the start pass of a component whose child
\* tasks failed is a group that carries what every failed child task
\* raised, and the exception start_component raises to its caller carries
\* the exception of every component whose prepare() or start() raised.
C28_AllFailuresCarried ==
    \A n \in Components :
        /\ (task[n].pc = "failed" /\ FailedChildren(n) # {}) =>
              /\ task[n].exc = "ExceptionGroup"
              /\ \A c \in FailedChildren(n) :
                    task[c].errors # {} /\ task[c].errors \subseteq task[n].errors
        /\ (task[n].pc = "failed" /\ task[n].exc # "ExceptionGroup") =>
              task[n].errors = {<<n, task[n].exc>>}
        /\ (start_result = "raised" /\ task[n].pc = "failed"
                /\ task[n].exc # "ExceptionGroup") =>
              /\ task[Root].pc = "failed"
              /\ <<n, task[n].exc>> \in task[Root].errors

C28_Witness ==
    /\ start_result = "raised"
    /\ task[2].pc = "failed" /\ task[2].exc = "Error"
    /\ task[3].pc = "failed" /\ task[3].exc = "Error"
    /\ task[Root].exc = "ExceptionGroup"
    /\ task[Root].errors = {<<2, "Error">>, <<3, "Error">>}

\* C29: start_component without a current context ends with RuntimeError
\* and nothing else has happened: no component has been instantiated, no
\* context created, no task started, no watcher started, and the config
\* mapping has the keys it was passed with; without a current context
\* start_component never gets further.
C29_NoContextNoStart ==
    /\ current = NoCtx => start_result \in {"none", "RuntimeError"}
    /\ start_result = "RuntimeError" =>
          /\ current = NoCtx
          /\ config_keys = ConfigKeys
          /\ startup_watcher = "none" /\ ~cancel_called /\ logged = << >>
          /\ \A n \in Components :
                /\ component[n] = NoComponent
                /\ status[n] = "none" /\ task[n] = NoTask
                /\ scope[n] = NotEntered /\ ~closed[n]
          /\ \A c \in Contexts, k \in Keys : resources[c][k] = NoEntry

C29_Witness ==
    /\ start_result = "RuntimeError"
    /\ tree = Components

StartedChildren(n) == {c \in Components : parent(c) = n /\ task[c].pc # "none"}

RECURSIVE MappingLeaves(_, _)
MappingLeaves(prefix, mapping) ==
    UNION {IF mapping[k].kind = "mapping"
           THEN MappingLeaves(prefix \o k, mapping[k].val)
           ELSE {<<prefix \o k, mapping[k]>>} : k \in DOMAIN mapping}

\* the same for an override value, whose mappings are sequences of items
RECURSIVE OverrideLeaves(_, _)
OverrideLeaves(path, value) ==
    IF value.kind = "mapping"
    THEN UNION {OverrideLeaves(path \o value.val[i][1], value.val[i][2]) :
                   i \in 1..Len(value.val)}
    ELSE {<<path, value>>}

\* every key of the mapping, at every depth, is a single segment
RECURSIVE PlainKeys(_)
PlainKeys(mapping) ==
    \A k \in DOMAIN mapping :
        Len(k) = 1 /\ (mapping[k].kind = "mapping" => PlainKeys(mapping[k].val))

\* the override written with nested mappings in place of dotted keys
RECURSIVE NestedForm(_)
NestedForm(items) ==
    [i \in 1..Len(items) |->
        LET key == items[i][1]
            value == IF items[i][2].kind = "mapping"
                     THEN Mapping(NestedForm(items[i][2].val))
                     ELSE items[i][2]
        IN  IF Len(key) = 1 THEN <<key, value>>
            ELSE <<Key(key[1]), Mapping(NestedForm(<< <<Tail(key), value>> >>))>>]

\* path p and path q lie on one branch: one is written over by the other
OnOneBranch(p, q) ==
    \/ Len(q) <= Len(p) /\ SubSeq(p, 1, Len(q)) = q
    \/ Len(p) <= Len(q) /\ SubSeq(q, 1, Len(p)) = p

\* {a: 2, b: {x: 5, y: 3}}
ScenarioExpected ==
    (Key("a") :> Scalar("2")) @@
    (Key("b") :> Mapping((Key("x") :> Scalar("5")) @@ (Key("y") :> Scalar("3"))))

\* {a: 2, foo: 6, b: {x: 5, y: 3, z: {r: "bar", s: [6, 7]}}}
TestExpected ==
    (Key("a") :> Scalar("2")) @@ (Key("foo") :> Scalar("6")) @@
    (Key("b") :> Mapping((Key("x") :> Scalar("5")) @@ (Key("y") :> Scalar("3")) @@
                         (Key("z") :> Mapping((Key("r") :> Scalar("bar")) @@
                                              (Key("s") :> List("[6, 7]"))))))

\* DummyComponent's kwargs {a: 1, b: 2, c: 3}, with the type add_component stored
RegistryExpected ==
    Key("dummy") :> Mapping((Key("type") :> Scalar("DummyComponent")) @@
                            (Key("a") :> Scalar("1")) @@ (Key("b") :> Scalar("2")) @@
                            (Key("c") :> Scalar("3")))

\* C32: merge_config(original, overrides) is the deep merge: a scalar or a
\* list of the overrides replaces what the original has at its path, nested
\* mappings are merged key by key, what only the original has is kept, a
\* dotted key has the effect of the nested mapping it stands for; and the
\* child configuration given from outside overrides, field by field, the one
\* add_component registered.
C32_DeepMerge ==
    merged.result # NoResult =>
        LET original == merged.original
            overrides == merged.overrides
            result == merged.result.val
            written == {<<i, leaf>> \in (1..Len(overrides)) \X
                                        UNION {OverrideLeaves(overrides[j][1], overrides[j][2]) :
                                                  j \in 1..Len(overrides)} :
                           leaf \in OverrideLeaves(overrides[i][1], overrides[i][2])}
            last == {w \in written :
                        \A v \in written : v[1] > w[1] => ~OnOneBranch(w[2][1], v[2][1])}
            kept == {leaf \in MappingLeaves(<< >>, original) :
                        \A w \in written : ~OnOneBranch(leaf[1], w[2][1])}
        IN  /\ PlainKeys(result)
            /\ MappingLeaves(<< >>, result) = {w[2] : w \in last} \cup kept
            /\ result = merge_config(original, NestedForm(overrides))
            /\ original = ScenarioOriginal
                   /\ overrides = << <<Key("a"), Scalar("2")>>, <<<<"b", "x">>, Scalar("5")>> >>
               => result = ScenarioExpected
            /\ original = TestOriginal /\ overrides \in {NestedDicts, PartNested, DottedPaths}
               => result = TestExpected
            /\ original = RegistryOriginal
                   /\ overrides = << <<Key("dummy"),
                                       Mapping(<< <<Key("a"), Scalar("1")>>,
                                                  <<Key("c"), Scalar("3")>> >>)>> >>
               => result = RegistryExpected

C32_Witness ==
    /\ merged.original = ScenarioOriginal
    /\ merged.overrides = << <<Key("a"), Scalar("2")>>, <<<<"b", "x">>, Scalar("5")>> >>
    /\ merged.result = Mapping(ScenarioExpected)

\* C38: once start_component has returned, or has raised what prepare() or
\* start() of a component raised, the watcher is stopped: no later step logs
\* the diagnostic or cancels the startup scope.
C38_WatcherStopped ==
    /\ [](start_result \in {"returned", "raised"} => startup_watcher # "sleeping")
    /\ [][(start_result \in {"returned", "raised"}) =>
              (logged' = logged /\ cancel_called' = cancel_called)]_vars

\* C39 as stated: the watcher cancels the startup scope of a running
\* start_component only while some component has not finished start(), and
\* once start() of every component has returned start_component returns the
\* root.
C39_Original ==
    /\ [][(start_result = "running" /\ ~cancel_called /\ cancel_called') =>
              (\E n \in tree : task[n].pc # "done")]_vars
    /\ []((\A n \in tree : task[n].pc = "done") => start_result = "returned")

\* C39: start_component raises TimeoutError exactly when the pass of the
\* root has ended without an error after the watcher cancelled the startup
\* scope; the watcher cancels the scope of a running start_component only
\* while start() of the root has not returned; and once start() of every
\* component has returned, start_component has returned the root if the
\* watcher had not fired by then and has raised TimeoutError if it had.
C39_TimeoutWhenFired ==
    /\ [][(start_result = "running" /\ ~cancel_called /\ cancel_called') =>
              (task[Root].pc # "done" /\ startup_watcher' = "fired")]_vars
    /\ [](/\ start_result = "TimeoutError" =>
                cancel_called /\ startup_watcher = "fired"
                /\ task[Root].pc \in {"done", "cancelled"}
          /\ (\A n \in tree : task[n].pc = "done") =>
                start_result = (IF cancel_called THEN "TimeoutError" ELSE "returned"))

\* start() of all four components has returned and start_component has
\* raised TimeoutError
C39_Witness ==
    /\ tree = Components
    /\ \A n \in Components : task[n].pc = "done"
    /\ start_result = "TimeoutError"
    /\ Len(logged) = 1

\* the calls of _start_component made for the component n: each is one
\* ComponentContext, one prepare() and one start()
StartCalls(n) == {i \in 1..Len(registry.calls) : registry.calls[i].component = n}

\* C40: when start_component has returned, every component that was
\* instantiated has had exactly one _start_component call (one prepare(), one
\* start(), one ComponentContext of its own), made by the call for the
\* component that declared it, whatever the shape of the tree and whatever
\* the aliases, those containing a dot included.
C40_EachStartedOnce ==
    registry.result = "returned" =>
        \A n \in registry.nodes :
            /\ Cardinality(StartCalls(n)) = 1
            /\ \A i \in StartCalls(n) :
                  n # RootNode =>
                      registry.calls[registry.calls[i].by].component = node_parent(n)

(***************************************************************************)
(* Claims about teardown (TeardownSpec).                                   *)
(***************************************************************************)
IsPrefix(a, b) == Len(a) <= Len(b) /\ a = SubSeq(b, 1, Len(a))

\* C7: close() calls the callbacks stored on the context in exactly the
\* reverse of the order in which add_teardown_callback stored them (all of
\* them once close() has returned), and a callback whose awaitable is still
\* pending has completed before the next callback is called: at most the
\* last called callback is unfinished, and only while close() awaits it.
C7_ReverseOrderNoOverlap ==
    \A c \in Contexts :
        /\ IsPrefix(Ids(invoked[c]), Reverse(registered[c]))
        /\ closing[c].pc = "returned" => Ids(invoked[c]) = Reverse(registered[c])
        /\ IsPrefix(Ids(finished[c]), Ids(invoked[c]))
        /\ Len(invoked[c]) <= Len(finished[c]) + 1
        /\ Len(invoked[c]) = Len(finished[c]) + 1 <=>
               (closing[c].pc = "await" /\ closing[c].awaiting = invoked[c][Len(invoked[c])].id)

\* a context with three callbacks: the second one called handed back an
\* awaitable that close() is awaiting, after the first one called completed
C7_Witness ==
    \E c \in Contexts :
        /\ Len(registered[c]) = 3
        /\ closing[c].pc = "await"
        /\ Len(invoked[c]) = 2

AllInvokedIds(inv) ==
    [i \in 1..Len(inv[0] \o inv[1] \o inv[2] \o inv[3] \o inv[4]) |->
        (inv[0] \o inv[1] \o inv[2] \o inv[3] \o inv[4])[i].id]

NoDuplicates(seq) == \A i, j \in 1..Len(seq) : i # j => seq[i] # seq[j]

\* C8: closed only goes from false to true; at most one close() call per
\* context gets past the closed check, a rejected call (also one made while
\* the first close() awaits a callback) calls no callback, and no callback is
\* called twice.
C8_CloseOnce ==
    [][\A c \in Contexts :
          /\ closed[c] => closed'[c]
          /\ closing'[c].entries <= 1
          /\ (closing'[c].rejected /\ ~closing[c].rejected) =>
                 (invoked' = invoked /\ closing'[c] = [closing[c] EXCEPT !.rejected = TRUE])
          /\ NoDuplicates(AllInvokedIds(invoked'))]_vars

\* a second close() was rejected while the first one awaits a callback
C8_Witness ==
    \E c \in Contexts : closing[c].rejected /\ closing[c].pc = "await"

Failed(c, kinds) == {i \in 1..Len(finished[c]) : finished[c][i].outcome \in kinds}

\* C9 as stated: whatever a teardown callback raises, close() does not
\* re-raise it.
C9_Original ==
    \A c \in Contexts : closing[c].pc # "raised"

\* C9 amended: a callback failure that is an Exception is caught: close()
\* goes on with the callbacks registered earlier and returns normally with
\* every callback called; close() is left by an exception only when a
\* callback raised a BaseException that is not an Exception.
C9_ExceptionsCaught ==
    \A c \in Contexts :
        /\ closing[c].pc = "raised" <=> Failed(c, {"raise_base"}) # {}
        /\ closing[c].pc = "loop" => closing[c].todo # << >>
        /\ (closing[c].pc = "returned" /\ Failed(c, {"raise"}) # {}) =>
               Ids(invoked[c]) = Reverse(registered[c])

\* close() returned although the callback called first raised an Exception,
\* once synchronously and once from its awaitable, and two more callbacks
\* were called after it
C9_Witness ==
    \E c \in Contexts :
        /\ closing[c].pc = "returned"
        /\ Len(finished[c]) = 3
        /\ finished[c][1].outcome = "raise"

\* the callback close() of c calls next, and the entry its call appends
NextCallback(c) == Head(closing[c].todo)
LastInvoked(c) == invoked'[c][Len(invoked'[c])]

\* C24: every call of a teardown callback by close() passes the exception
\* close() was called with (None when the context ended cleanly) when the
\* callback was registered with pass_exception=True and passes no argument
\* otherwise; that exception does not change while close() runs; a close()
\* that returns has called every registered callback; and the close() of a
\* context used as a scope is called with the exception that left the body
\* of the scope.
C24_ExceptionPassed ==
    /\ [][\A c \in Contexts :
            invoked'[c] # invoked[c] =>
                /\ invoked'[c] = Append(invoked[c], LastInvoked(c))
                /\ LastInvoked(c).id = NextCallback(c).id
                /\ NextCallback(c).pass_exception =>
                       LastInvoked(c).arg = closing[c].exception
                /\ ~NextCallback(c).pass_exception => LastInvoked(c).arg = NoArg]_vars
    /\ [][\A c \in Contexts :
            closing[c].pc # "open" => closing'[c].exception = closing[c].exception]_vars
    /\ [][\A c \in Contexts :
            (scope[c].state = "entered" /\ scope'[c].state = "exited" /\ ~closed[c]) =>
                /\ closed'[c]
                /\ closing'[c].exception = scope'[c].exc_val
                /\ closing'[c].todo = Reverse(teardown_callbacks[c])]_vars
    /\ [](\A c \in Contexts :
            closing[c].pc = "returned" => SeqSet(Ids(invoked[c])) = SeqSet(registered[c]))

C24_Witness ==
    \E c \in Contexts :
        /\ scope[c].state = "exited" /\ scope[c].exc_val = "RuntimeError"
        /\ closing[c].pc = "returned" /\ closing[c].exception = "RuntimeError"
        /\ Len(invoked[c]) = 2
        /\ invoked[c][1].arg = "RuntimeError"
        /\ invoked[c][2].arg = NoArg

\* C33: a function wrapped by context_teardown, called with an open context,
\* runs up to its first yield in the call; the part after the yield runs only
\* in the close() of that context, at most once, and exactly once with the
\* exception (or None) close() was given when close() has returned; when the
\* first part raised or ended without a yield, or no context was passed, the
\* wrapper raises, adds no teardown callback and the second part never runs.
C33_TeardownPart ==
    /\ [](\A g \in 1..Len(generators) :
            LET gen == generators[g]
            IN  /\ Len(gen.sent) <= 1
                /\ gen.first # "yield" =>
                       gen.callback = 0 /\ gen.sent = << >> /\ gen.exc # NoExc
                /\ (gen.first = "yield" /\ gen.open) =>
                       /\ gen.exc = NoExc
                       /\ gen.callback # 0
                       /\ ~closed[gen.ctx] =>
                              gen.sent = << >>
                              /\ \E i \in 1..Len(teardown_callbacks[gen.ctx]) :
                                    teardown_callbacks[gen.ctx][i].id = gen.callback
                       /\ gen.sent # << >> =>
                              /\ gen.sent[1].by = gen.ctx
                              /\ gen.sent[1].exception = closing[gen.ctx].exception
                       /\ closing[gen.ctx].pc = "returned" => Len(gen.sent) = 1)
    /\ [][Len(generators') > Len(generators) =>
              LET gen == generators'[Len(generators')]
              IN  /\ SubSeq(generators', 1, Len(generators)) = generators
                  /\ gen.sent = << >>
                  /\ gen.callback = 0 =>
                         teardown_callbacks' = teardown_callbacks /\ registered' = registered
                  /\ UNCHANGED <<closing, invoked, finished>>]_vars

C33_Witness ==
    \E g \in 1..Len(generators) :
        /\ generators[g].first = "yield" /\ generators[g].open
        /\ Len(generators[g].sent) = 1
        /\ generators[g].sent[1].exception \in Exceptions
        /\ closing[generators[g].ctx].pc = "returned"
        /\ \E h \in 1..Len(generators) : generators[h].first = "raise"

(***************************************************************************)
(* Claims about the teardown callbacks of components                       *)
(* (ComponentTeardownSpec).                                                *)
(***************************************************************************)
\* C19: add_teardown_callback on the context of a component stores the
\* callback where add_teardown_callback on the context around the tree
\* stores it and never on the context of a component, so the teardown list
\* of every component context is empty and closing one calls no callback;
\* the callbacks the components registered are on the list of the context
\* around the tree in the order of their registration, and its one close()
\* calls them in the reverse of that order.
C19_ForwardedToParent ==
    /\ \A n \in Components :
          /\ teardown_callbacks[n] = << >>
          /\ registered[n] = << >>
          /\ invoked[n] = << >>
          /\ \A pass_exception \in BOOLEAN :
                LET callback == [id |-> NumCallbacks + 1, pass_exception |-> pass_exception]
                IN  ComponentContext_add_teardown_callback(teardown_callbacks, n, callback)
                        = add_teardown_callback(teardown_callbacks, 0, callback)
    /\ \A i, j \in 1..Len(registered[0]) : i < j => registered[0][i] < registered[0][j]
    /\ ~closed[0] => Ids(teardown_callbacks[0]) = registered[0]
    /\ closing[0].entries <= 1
    /\ IsPrefix(Ids(invoked[0]), Reverse(registered[0]))
    /\ closing[0].pc = "returned" => Ids(invoked[0]) = Reverse(registered[0])

\* three callbacks registered by components were called by the close() of
\* the context around the tree, after a child's and a grandchild's context
\* had been closed
C19_Witness ==
    /\ Len(registered[0]) = 3
    /\ closing[2].pc = "returned" /\ closing[4].pc = "returned"
    /\ closing[0].pc = "returned"
    /\ Ids(invoked[0]) = <<3, 2, 1>>

====
